---- MODULE Spec2Model ----
(***************************************************************************)
(* Verification model of the Secure VLC link (CombinedCode/src): the ring  *)
(* buffer, the chaotic-map / MSWS32 keystream generator, the byte packing  *)
(* of the transmit path, the drain of the receive path and the bit-banged  *)
(* TX / RX framers.                                                        *)
(*                                                                         *)
(* Number representation.  TLC integers are 32-bit signed, so a uint32_t   *)
(* is kept as its two 16-bit halves <<low, high>> and a uint64_t as its    *)
(* eight bytes, least significant first; shifts, masks and arithmetic on   *)
(* them are computed half-wise / byte-wise modulo 2^32 / 2^64.             *)
(***************************************************************************)
EXTENDS Integers, Sequences, FiniteSets, TLC

(***************************************************************************)
(* Bounds of the model.                                                    *)
(***************************************************************************)
\* Capacity of a ring buffer.  config.h:94 sets 128; the model scales it
\* down and keeps every relation to it (4*N, 9*N, N words) symbolic.
BUFFER_MAX_SIZE == 3
\* Pushes of one ring-buffer run are capped at BUFFER_MAX_SIZE + ExtraPushes,
\* enough for the indices to wrap.
ExtraPushes == 2

(***************************************************************************)
(* Bytes and words.                                                        *)
(***************************************************************************)
Byte == 0..255

\* 2^n for 0 <= n <= 16
Pow2(n) ==
    <<1, 2, 4, 8, 16, 32, 64, 128, 256, 512, 1024, 2048, 4096, 8192, 16384,
      32768, 65536>>[n + 1]

\* bit i of a byte
ByteBit(b, i) == (b \div Pow2(i)) % 2

\* b ^ c on bytes
XorByte(b, c) ==
    LET x(i) == ((ByteBit(b, i) + ByteBit(c, i)) % 2) * Pow2(i)
    IN  x(0) + x(1) + x(2) + x(3) + x(4) + x(5) + x(6) + x(7)

\* a ^ b on 16-bit halves
Xor16(a, b) ==
    XorByte(a % 256, b % 256) + 256 * XorByte(a \div 256, b \div 256)

\* a ^ b on uint32_t
Xor32(a, b) == <<Xor16(a[1], b[1]), Xor16(a[2], b[2])>>

\* a ^ b on uint64_t
Xor64(a, b) == [i \in 1..8 |-> XorByte(a[i], b[i])]

\* (w >> i) & 0x1 on uint32_t, 0 <= i <= 31
Bit32(w, i) == (w[(i \div 16) + 1] \div Pow2(i % 16)) % 2

\* w | (bit << i) on uint32_t, bit in {0, 1}, 0 <= i <= 31
OrBit32(w, bit, i) ==
    IF bit = 1 /\ Bit32(w, i) = 0
    THEN [w EXCEPT ![(i \div 16) + 1] = @ + Pow2(i % 16)]
    ELSE w

\* The element of a one-element set.  In Eval({ e : x \in {d} }) the value
\* of d is computed once and e is computed with x standing for that value.
Eval(S) == CHOOSE v \in S : TRUE

ZERO32 == <<0, 0>>
ZERO64 == <<0, 0, 0, 0, 0, 0, 0, 0>>

(***************************************************************************)
(* State.                                                                  *)
(***************************************************************************)
VARIABLES
    \* --- one ring buffer driven call by call (specification SpecRB) ---
    rb,          \* the RingBuffer object
    out_value,   \* the caller's variable handed to ringBufferPop
    rb_call,     \* the last call: its kind, argument, pre-state and result
    pushed,      \* values of the successful pushes, in call order
    popped,      \* values yielded by the successful pops, in call order
    \* --- the program's globals ---
    TX_encryption_vars,   \* TX_functions.c:17
    RX_encryption_vars,   \* RX_functions.c:17
    ring_buffer_TX,       \* TX_functions.c:20
    ring_buffer_RX,       \* RX_functions.c:20
    tx_encryption_set,    \* console_commands.c:22
    rx_encryption_set,    \* console_commands.c:25
    tx,          \* TX_functions.c:23-33: value_TX, bit_counter_TX,
                 \* in_transmission, and whether timer_TX is running
    rx,          \* RX_functions.c:23-35: value_RX, bit_counter_RX,
                 \* reception_complete, whether timer_RX is running and
                 \* whether RX_gpio_ISR is installed on the pin
    pin,         \* the level of the line: 1 high, 0 low
    tx_task,     \* where TX_control_task is
    rx_task,     \* where RX_control_task is, and the locals of its drain
    \* --- history variables, read by the properties only ---
    cfg_set,     \* per direction, what its last set_encryption stored
    ks_log,      \* per direction, the keys drawn since its last set_encryption
    enc_log,     \* the groups encrypted since the last TX set_encryption
    dec_log,     \* the words decrypted since the last RX set_encryption
    sent,        \* the messages handed to add_str_to_buffer while in step
    rcvd,        \* the bytes of output_str of the drains while in step
    in_step,     \* both directions were configured alike with nothing in
                 \* flight, and no word has been refused since
    last_add,    \* the last add_str_to_buffer call
    n_cmds,      \* commands issued: [set |-> .., add |-> ..]
    frame,       \* the frame on the line: the word sent, the falling edges
                 \* of the line and those the receiver acted on, the bits
                 \* sampled
    drain,       \* the drain in course or the last one: the words stored and
                 \* the context when it began, the words popped
    \* --- the console task inside cmd_set_encryption (SpecCfg) ---
    console,     \* where the console task is, and the command it is in
    cfg_hist,    \* history: the last command and its result, the last call
                 \* of key_generator_setup
    \* --- single functions applied to chosen inputs (SpecNum) ---
    msws_run,    \* msws32: the state before the run, before the last call
                 \* and now, the results of the calls
    map_run      \* a map iteration: the map before and after the call

rbvars == <<rb, out_value, rb_call, pushed, popped>>

encvars == <<TX_encryption_vars, RX_encryption_vars, tx_encryption_set, rx_encryption_set>>

bufvars == <<ring_buffer_TX, ring_buffer_RX>>

linkvars == <<tx, rx, pin, tx_task, rx_task>>

packhist == <<cfg_set, ks_log, enc_log, dec_log, sent, rcvd, in_step, last_add>>

linkhist == <<frame, drain>>

histvars == <<packhist, n_cmds, linkhist>>

sidevars == <<console, cfg_hist, msws_run, map_run>>

vars == <<rb, out_value, rb_call, pushed, popped,
          TX_encryption_vars, RX_encryption_vars, ring_buffer_TX, ring_buffer_RX,
          tx_encryption_set, rx_encryption_set, tx, rx, pin, tx_task, rx_task,
          cfg_set, ks_log, enc_log, dec_log, sent, rcvd, in_step, last_add, n_cmds,
          frame, drain, console, cfg_hist, msws_run, map_run>>

(***************************************************************************)
(* ring_buffer.c                                                           *)
(***************************************************************************)
Index == 0..(BUFFER_MAX_SIZE - 1)

\* malloc leaves buffer[] unset: createRingBuffer assigns only the indices
\* and the size, so the slots start with whatever the heap held.
createRingBuffer(garbage) ==
    [buffer |-> garbage, head |-> 0, tail |-> 0, size |-> 0]

\* Mutant of ringBufferIsFull: the capacity test is off by one.
ringBufferIsFull_off_by_one(b) == b.size = BUFFER_MAX_SIZE - 1

ringBufferIsFull(b) == b.size = BUFFER_MAX_SIZE

ringBufferIsEmpty(b) == b.size = 0

\* The words stored in a ring buffer, oldest first.
RBContents(b) == [i \in 1..b.size |-> b.buffer[(b.head + i - 1) % BUFFER_MAX_SIZE]]

\* Mutant of ringBufferPush: tail is not taken modulo BUFFER_MAX_SIZE.
ringBufferPush_tail_not_wrapped(b, value) ==
    IF ringBufferIsFull(b)
    THEN [rb |-> b, ret |-> FALSE]
    ELSE [rb |-> [b EXCEPT !.buffer[b.tail % BUFFER_MAX_SIZE] = value,
                           !.tail = b.tail + 1,
                           !.size = b.size + 1],
          ret |-> TRUE]

\* Mutant of ringBufferPush: tail stays where it is.
ringBufferPush_tail_stays(b, value) ==
    IF ringBufferIsFull(b)
    THEN [rb |-> b, ret |-> FALSE]
    ELSE [rb |-> [b EXCEPT !.buffer[b.tail] = value,
                           !.size = b.size + 1],
          ret |-> TRUE]

\* The result of the call: the buffer after it and the returned bool.
ringBufferPush(b, value) ==
    IF ringBufferIsFull(b)
    THEN [rb |-> b, ret |-> FALSE]
    ELSE [rb |-> [b EXCEPT !.buffer[b.tail] = value,
                           !.tail = (b.tail + 1) % BUFFER_MAX_SIZE,
                           !.size = b.size + 1],
          ret |-> TRUE]

\* Mutant of ringBufferPop: the slot is read at tail instead of head.
ringBufferPop_reads_tail(b, value) ==
    IF b.size = 0
    THEN [rb |-> b, value |-> value, ret |-> FALSE]
    ELSE [rb |-> [b EXCEPT !.head = (b.head + 1) % BUFFER_MAX_SIZE,
                           !.size = b.size - 1],
          value |-> b.buffer[b.tail],
          ret |-> TRUE]

\* Mutant of ringBufferPop: *value is assigned before the emptiness test.
ringBufferPop_writes_first(b, value) ==
    IF b.size = 0
    THEN [rb |-> b, value |-> b.buffer[b.head], ret |-> FALSE]
    ELSE [rb |-> [b EXCEPT !.head = (b.head + 1) % BUFFER_MAX_SIZE,
                           !.size = b.size - 1],
          value |-> b.buffer[b.head],
          ret |-> TRUE]

\* The result of the call: the buffer after it, the content of *value after
\* it (value is its content before) and the returned bool.
ringBufferPop(b, value) ==
    IF ringBufferIsEmpty(b)
    THEN [rb |-> b, value |-> value, ret |-> FALSE]
    ELSE [rb |-> [b EXCEPT !.head = (b.head + 1) % BUFFER_MAX_SIZE,
                           !.size = b.size - 1],
          value |-> b.buffer[b.head],
          ret |-> TRUE]

(***************************************************************************)
(* 64-bit unsigned arithmetic on eight little-endian bytes.                *)
(***************************************************************************)
RECURSIVE Carry64(_, _, _)
\* Propagates carries through the column sums col[i..8]; the carry out of
\* byte 8 is dropped (arithmetic modulo 2^64).
Carry64(col, i, carry) ==
    IF i > 8 THEN <<>>
    ELSE LET t == col[i] + carry
         IN  <<t % 256>> \o Carry64(col, i + 1, t \div 256)

\* a + b modulo 2^64
Add64(a, b) == Carry64([i \in 1..8 |-> a[i] + b[i]], 1, 0)

RECURSIVE ColumnSum(_, _, _, _)
\* sum over i in lo..k of a[i] * b[k + 1 - i]
ColumnSum(a, b, k, i) ==
    IF i > k THEN 0 ELSE a[i] * b[k + 1 - i] + ColumnSum(a, b, k, i + 1)

\* a * b modulo 2^64
Mul64(a, b) == Carry64([k \in 1..8 |-> ColumnSum(a, b, k, 1)], 1, 0)

\* (x >> 32) | (x << 32)
Rot32(x) == <<x[5], x[6], x[7], x[8], x[1], x[2], x[3], x[4]>>

\* (uint32_t)x
Low32(x) == <<x[1] + 256 * x[2], x[3] + 256 * x[4]>>

(***************************************************************************)
(* double.  A double is modelled as a fixed-point number: the integer v    *)
(* stands for v / SCALE, every multiplication rounds its result to the     *)
(* grid (as every double operation rounds to 53 bits), addition and        *)
(* subtraction are exact.  FRAC_DIGITS is the number of decimal digits     *)
(* kept.                                                                   *)
(***************************************************************************)
FRAC_DIGITS == 3

RECURSIVE Pow10(_)
Pow10(n) == IF n = 0 THEN 1 ELSE 10 * Pow10(n - 1)

SCALE == Pow10(FRAC_DIGITS)

\* the double nearest to num / den
Dbl(num, den) == (num * SCALE) \div den

Abs(v) == IF v < 0 THEN 0 - v ELSE v

\* The double that is not a number, kept apart from every v / SCALE.  Every
\* comparison with it is false and every sum or product with it is NaN.
NaN == 0 - 2147483647

IsNaN(v) == v = NaN

\* a * b on doubles, rounded to nearest (ties away from zero)
FMul(a, b) ==
    LET p == a * b
        q == (Abs(p) + (SCALE \div 2)) \div SCALE
    IN  IF p < 0 THEN 0 - q ELSE q

(***************************************************************************)
(* encryption.h / encryption.c                                             *)
(***************************************************************************)
DUFFING_ALPHA == Dbl(275, 100)
DUFFING_BETA == Dbl(2, 10)
LOGISTIC_R == Dbl(399, 100)
LOGISTIC2D_R == Dbl(119, 100)

MapTypes == {"MAP_DUFFING", "MAP_LOGISTIC", "MAP_2D_LOGISTIC"}

RECURSIVE Normalise(_, _, _)
\* num / den * 2^e with the value unchanged and 1 <= num / den < 2
Normalise(num, den, e) ==
    IF num >= 2 * den THEN Normalise(num, 2 * den, e + 1)
    ELSE IF num < den THEN Normalise(2 * num, den, e - 1)
    ELSE [num |-> num, den |-> den, e |-> e]

RECURSIVE FractionBytes(_, _, _)
\* the next n bytes of the binary expansion of r / den (0 <= r < den), most
\* significant first, followed by the remainder left after them
FractionBytes(r, den, n) ==
    IF n = 0 THEN <<r>>
    ELSE <<(r * 256) \div den>> \o FractionBytes((r * 256) % den, den, n - 1)

RECURSIVE Increment(_, _)
\* m + 1 on the little-endian digits m[i..], each digit below limit[i]; the
\* last element of the result is the carry out
Increment(m, i) ==
    IF i > Len(m) THEN <<1>>
    ELSE IF m[i] + 1 < (IF i = Len(m) THEN 16 ELSE 256)
         THEN <<m[i] + 1>> \o SubSeq(m, i + 1, Len(m)) \o <<0>>
         ELSE <<0>> \o Increment(m, i + 1)

\* The 52 fraction bits of n.num / n.den (a value in [1, 2)) rounded to
\* nearest-even, little-endian as six bytes and the top nibble, followed by
\* the carry of the rounding into the exponent.
RoundedFraction(n) ==
    LET r0  == n.num - n.den
        nib == (r0 * 16) \div n.den
    IN  Eval({ LET rem == fb[7]
                   m   == <<fb[6], fb[5], fb[4], fb[3], fb[2], fb[1], nib>>
                   up  == \/ 2 * rem > n.den
                          \/ (2 * rem = n.den /\ m[1] % 2 = 1)
               IN  IF up THEN Increment(m, 1) ELSE m \o <<0>>
               : fb \in {FractionBytes((r0 * 16) % n.den, n.den, 6)} })

\* memcpy(result, &d, sizeof(double)): the IEEE-754 binary64 pattern of the
\* value v / SCALE, rounded to nearest-even as the compiler rounds a decimal:
\* bit 63 the sign, bits 62..52 the biased exponent, bits 51..0 the fraction.
doubleToUint64Bits(v) ==
    IF v = 0 THEN ZERO64
    ELSE IF IsNaN(v) THEN <<0, 0, 0, 0, 0, 0, 248, 127>>
    ELSE
    Eval({ Eval({ LET E    == n.e + 1023 + mr[8]
                      sign == IF v < 0 THEN 1 ELSE 0
                  IN  <<mr[1], mr[2], mr[3], mr[4], mr[5], mr[6],
                        (E % 16) * 16 + mr[7], sign * 128 + (E \div 16)>>
                  : mr \in {RoundedFraction(n)} })
           : n \in {Normalise(Abs(v), SCALE, 0)} })

\* Mutant of duffing_map_iteration: map->x is assigned before map->y is
\* computed from it.
duffing_map_iteration_x_first(map) ==
    LET temp_x == map.y
    IN  [map EXCEPT !.y = IF IsNaN(temp_x) THEN NaN
                          ELSE (FMul(0 - DUFFING_BETA, temp_x) + FMul(DUFFING_ALPHA, temp_x))
                               - FMul(FMul(temp_x, temp_x), temp_x),
                    !.x = temp_x]

duffing_map_iteration(map) ==
    LET temp_x == map.y
    IN  [map EXCEPT !.y = IF IsNaN(map.x) \/ IsNaN(temp_x) THEN NaN
                          ELSE (FMul(0 - DUFFING_BETA, map.x) + FMul(DUFFING_ALPHA, temp_x))
                               - FMul(FMul(temp_x, temp_x), temp_x),
                    !.x = temp_x]

logistic_map_iteration(map) ==
    [map EXCEPT !.x = IF IsNaN(map.x) THEN NaN
                      ELSE FMul(FMul(LOGISTIC_R, map.x), SCALE - map.x),
                !.y = IF IsNaN(map.y) THEN NaN
                      ELSE FMul(FMul(LOGISTIC_R, map.y), SCALE - map.y)]

\* Mutant of logistic2D_map_iteration: both lines read the coordinates as
\* they were before the call.
logistic2D_map_iteration_simultaneous(map) ==
    IF IsNaN(map.x) \/ IsNaN(map.y) THEN [map EXCEPT !.x = NaN, !.y = NaN]
    ELSE [map EXCEPT !.x = FMul(FMul(FMul(LOGISTIC2D_R, 3 * map.y + SCALE), map.x),
                                SCALE - map.x),
                     !.y = FMul(FMul(FMul(LOGISTIC2D_R, 3 * map.x + SCALE), map.y),
                                SCALE - map.y)]

\* map->x is assigned first and the new value is read by the line for map->y.
logistic2D_map_iteration(map) ==
    LET x1 == IF IsNaN(map.x) \/ IsNaN(map.y) THEN NaN
              ELSE FMul(FMul(FMul(LOGISTIC2D_R, 3 * map.y + SCALE), map.x),
                        SCALE - map.x)
    IN  [map EXCEPT !.x = x1,
                    !.y = IF IsNaN(x1) \/ IsNaN(map.y) THEN NaN
                          ELSE FMul(FMul(FMul(LOGISTIC2D_R, 3 * x1 + SCALE), map.y),
                                    SCALE - map.y)]

\* The function pointer for a map type; NULL for an unknown type.
get_chaotic_map_iterator_t(type) ==
    CASE type = "MAP_DUFFING" -> "duffing_map_iteration"
      [] type = "MAP_LOGISTIC" -> "logistic_map_iteration"
      [] type = "MAP_2D_LOGISTIC" -> "logistic2D_map_iteration"
      [] OTHER -> "NULL"

\* chaotic_map_iterator(map): the call through the stored function pointer
chaotic_map_iterator(it, map) ==
    CASE it = "duffing_map_iteration" -> duffing_map_iteration(map)
      [] it = "logistic_map_iteration" -> logistic_map_iteration(map)
      [] it = "logistic2D_map_iteration" -> logistic2D_map_iteration(map)

\* Mutant of msws32: the halves of x are not exchanged.
msws32_no_swap(v) ==
    Eval({ Eval({ [vars |-> [x |-> x2, w |-> w1, s |-> v.s], ret |-> Low32(x2)]
                  : x2 \in {Add64(Mul64(v.x, v.x), w1)} })
           : w1 \in {Add64(v.w, v.s)} })

\* Mutant of msws32: the Weyl sum is added before the squaring.
msws32_add_first(v) ==
    Eval({ Eval({ [vars |-> [x |-> x2, w |-> w1, s |-> v.s], ret |-> Low32(x2)]
                  : x2 \in {Rot32(Eval({ Mul64(t, t) : t \in {Add64(v.x, w1)} }))} })
           : w1 \in {Add64(v.w, v.s)} })

\* The state after the call and the returned uint32_t.
msws32(v) ==
    Eval({ Eval({ [vars |-> [x |-> x2, w |-> w1, s |-> v.s], ret |-> Low32(x2)]
                  : x2 \in {Rot32(Add64(Mul64(v.x, v.x), w1))} })
           : w1 \in {Add64(v.w, v.s)} })

RECURSIVE IterateMap(_, _, _)
\* n successive calls of the iterator (none for n <= 0); the count is split
\* in two halves to keep the evaluation shallow.
IterateMap(it, map, n) ==
    IF n <= 0 THEN map
    ELSE IF n = 1 THEN chaotic_map_iterator(it, map)
    ELSE Eval({ IterateMap(it, half, n - (n \div 2))
                : half \in {IterateMap(it, map, n \div 2)} })

\* for (i = 0; i < iterations; i++) chaotic_map_iterator(chaotic_map_vars);
\* with a NULL iterator the first pass returns.
initialize_generator(it, map) ==
    IF it = "NULL" THEN map ELSE IterateMap(it, map, map.iterations)

\* Mutant of key_generator_setup: a context that has an iterator from an
\* earlier setup is taken to be set up already.
key_generator_setup_once(ev) ==
    IF ev.chaotic_map_iterator # "NULL" THEN ev
    ELSE LET it == get_chaotic_map_iterator_t(ev.type) IN
         Eval({ [ev EXCEPT !.chaotic_map_iterator = it,
                           !.chaotic_map1 = initialize_generator(it, ev.chaotic_map1),
                           !.chaotic_map2 = m2,
                           !.msws32_variables.x = doubleToUint64Bits(m2.y),
                           !.msws32_variables.s = doubleToUint64Bits(m2.y)]
                : m2 \in {initialize_generator(it, ev.chaotic_map2)} })

\* Mutant of key_generator_setup: x and s are taken from chaotic_map2.y as
\* the command stored it, before the warm-up.
key_generator_setup_seeds_before_warm_up(ev) ==
    LET it == get_chaotic_map_iterator_t(ev.type) IN
    IF it = "NULL" THEN [ev EXCEPT !.chaotic_map_iterator = it]
    ELSE [ev EXCEPT !.chaotic_map_iterator = it,
                    !.chaotic_map1 = initialize_generator(it, ev.chaotic_map1),
                    !.chaotic_map2 = initialize_generator(it, ev.chaotic_map2),
                    !.msws32_variables.x = doubleToUint64Bits(ev.chaotic_map2.y),
                    !.msws32_variables.s = doubleToUint64Bits(ev.chaotic_map2.y)]

key_generator_setup(ev) ==
    LET it == get_chaotic_map_iterator_t(ev.type) IN
    IF it = "NULL" THEN [ev EXCEPT !.chaotic_map_iterator = it]
    ELSE Eval({ [ev EXCEPT !.chaotic_map_iterator = it,
                           !.chaotic_map1 = initialize_generator(it, ev.chaotic_map1),
                           !.chaotic_map2 = m2,
                           !.msws32_variables.x = doubleToUint64Bits(m2.y),
                           !.msws32_variables.s = doubleToUint64Bits(m2.y)]
                : m2 \in {initialize_generator(it, ev.chaotic_map2)} })

\* Mutant of key_generator: the bits of the map are added to w.
key_generator_accumulates(ev) ==
    Eval({ Eval({ [vars |-> [ev EXCEPT !.chaotic_map1 = m1,
                                       !.msws32_variables = r.vars],
                   ret |-> r.ret]
                  : r \in { msws32(v) :
                            v \in {[ev.msws32_variables EXCEPT
                                      !.w = Add64(@,
                                            IF ev.type = "MAP_LOGISTIC"
                                            THEN Xor64(doubleToUint64Bits(m1.y),
                                                       doubleToUint64Bits(m1.x))
                                            ELSE doubleToUint64Bits(m1.y))]} } })
           : m1 \in {chaotic_map_iterator(ev.chaotic_map_iterator, ev.chaotic_map1)} })

\* Mutant of key_generator: the bits of the map are stored in s, the Weyl
\* increment, instead of w.
key_generator_reseeds_s(ev) ==
    Eval({ Eval({ [vars |-> [ev EXCEPT !.chaotic_map1 = m1,
                                       !.msws32_variables = r.vars],
                   ret |-> r.ret]
                  : r \in { msws32(v) :
                            v \in {[ev.msws32_variables EXCEPT
                                      !.s = IF ev.type = "MAP_LOGISTIC"
                                            THEN Xor64(doubleToUint64Bits(m1.y),
                                                       doubleToUint64Bits(m1.x))
                                            ELSE doubleToUint64Bits(m1.y)]} } })
           : m1 \in {chaotic_map_iterator(ev.chaotic_map_iterator, ev.chaotic_map1)} })

\* Mutant of key_generator: the bits of chaotic_map1.x are XORed into w
\* for every map type.
key_generator_xors_every_variant(ev) ==
    Eval({ Eval({ [vars |-> [ev EXCEPT !.chaotic_map1 = m1,
                                       !.msws32_variables = r.vars],
                   ret |-> r.ret]
                  : r \in { msws32(v) :
                            v \in {[ev.msws32_variables EXCEPT
                                      !.w = Xor64(doubleToUint64Bits(m1.y),
                                                  doubleToUint64Bits(m1.x))]} } })
           : m1 \in {chaotic_map_iterator(ev.chaotic_map_iterator, ev.chaotic_map1)} })

\* The context after the call and the returned key.
key_generator(ev) ==
    Eval({ Eval({ [vars |-> [ev EXCEPT !.chaotic_map1 = m1,
                                       !.msws32_variables = r.vars],
                   ret |-> r.ret]
                  : r \in { msws32(v) :
                            v \in {[ev.msws32_variables EXCEPT
                                      !.w = IF ev.type = "MAP_LOGISTIC"
                                            THEN Xor64(doubleToUint64Bits(m1.y),
                                                       doubleToUint64Bits(m1.x))
                                            ELSE doubleToUint64Bits(m1.y)]} } })
           : m1 \in {chaotic_map_iterator(ev.chaotic_map_iterator, ev.chaotic_map1)} })

(***************************************************************************)
(* console_commands.c: the configuration of one direction.                 *)
(***************************************************************************)
\* The limits of check_iterations, 200 and 1000000 in the source, scaled
\* down so that a clamped count can be iterated.
min_iterations == 4
max_iterations == 8

\* value < min_value || value > max_value rejects; both comparisons are
\* false for NaN.
check_double_range(value, map_type) ==
    IF map_type \notin MapTypes THEN FALSE
    ELSE LET min_value == CASE map_type = "MAP_DUFFING" -> Dbl(-12, 10)
                            [] map_type = "MAP_LOGISTIC" -> Dbl(0, 1)
                            [] map_type = "MAP_2D_LOGISTIC" -> Dbl(-1, 1)
             max_value == CASE map_type = "MAP_DUFFING" -> Dbl(12, 10)
                            [] map_type = "MAP_LOGISTIC" -> Dbl(1, 1)
                            [] map_type = "MAP_2D_LOGISTIC" -> Dbl(1, 1)
         IN  IsNaN(value) \/ ~(value < min_value \/ value > max_value)

\* Every supported map type takes the same limits.
check_iterations(value, map_type) ==
    IF map_type \notin MapTypes THEN min_iterations
    ELSE IF value < min_iterations THEN min_iterations
    ELSE IF value > max_iterations THEN max_iterations
    ELSE value

\* The null msws32_var_t pointer: it has none of the fields x, w, s.
NullMsws == [null |-> TRUE]

\* A global encryption_vars_t before any command: zero-initialised.
NoEncryptionVars ==
    [type |-> "MAP_DUFFING",
     chaotic_map_iterator |-> "NULL",
     chaotic_map1 |-> [x |-> 0, y |-> 0, iterations |-> 0],
     chaotic_map2 |-> [x |-> 0, y |-> 0, iterations |-> 0],
     msws32_variables |-> NullMsws]

\* cmd_set_encryption from the point where the arguments have passed the
\* checks: the values are stored, the iteration counts clamped, the MSWS
\* state allocated and zeroed, and key_generator_setup run.
cmd_set_encryption_store(ev, map_type, a) ==
    key_generator_setup(
        [ev EXCEPT !.type = map_type,
                   !.chaotic_map1 = [x |-> a.x1, y |-> a.y1,
                                     iterations |-> check_iterations(a.iterations1, map_type)],
                   !.chaotic_map2 = [x |-> a.x2, y |-> a.y2,
                                     iterations |-> check_iterations(a.iterations2, map_type)],
                   !.msws32_variables = [x |-> ZERO64, w |-> ZERO64, s |-> ZERO64]])

(***************************************************************************)
(* TX_functions.c: word production.                                        *)
(***************************************************************************)
\* Mutant of combineCharsToUint32: the bytes are packed most significant
\* first.
combineCharsToUint32_big_endian(b0, b1, b2, b3) == <<b2 * 256 + b3, b0 * 256 + b1>>

\* (b3 << 24) | (b2 << 16) | (b1 << 8) | b0
combineCharsToUint32(b0, b1, b2, b3) == <<b1 * 256 + b0, b3 * 256 + b2>>

\* Mutant of add_str_pass: a short last group is filled up with spaces.
add_str_pass_pads_with_spaces(input_str, i, b, ev) ==
    LET len == Len(input_str)
        b0 == IF i < len THEN input_str[i + 1] ELSE 32
        b1 == IF i + 1 < len THEN input_str[i + 2] ELSE 32
        b2 == IF i + 2 < len THEN input_str[i + 3] ELSE 32
        b3 == IF i + 3 < len THEN input_str[i + 4] ELSE 32
        group == combineCharsToUint32(b0, b1, b2, b3)
    IN  Eval({ Eval({ [group |-> group, ks |-> k.ret,
                       value |-> Xor32(group, k.ret), ret |-> p.ret,
                       rb |-> p.rb, ev |-> k.vars]
                      : p \in {ringBufferPush(b, Xor32(group, k.ret))} })
               : k \in {key_generator(ev)} })

\* One pass of the loop of add_str_to_buffer at index i (counted from 0):
\* the group formed, the key drawn, the value handed to ringBufferPush, what
\* the push returned, and the buffer and the context after the pass.
add_str_pass(input_str, i, b, ev) ==
    LET len == Len(input_str)
        b0 == IF i < len THEN input_str[i + 1] ELSE 0
        b1 == IF i + 1 < len THEN input_str[i + 2] ELSE 0
        b2 == IF i + 2 < len THEN input_str[i + 3] ELSE 0
        b3 == IF i + 3 < len THEN input_str[i + 4] ELSE 0
        group == combineCharsToUint32(b0, b1, b2, b3)
    IN  Eval({ Eval({ [group |-> group, ks |-> k.ret,
                       value |-> Xor32(group, k.ret), ret |-> p.ret,
                       rb |-> p.rb, ev |-> k.vars]
                      : p \in {ringBufferPush(b, Xor32(group, k.ret))} })
               : k \in {key_generator(ev)} })

RECURSIVE add_str_loop_stops_at_failure(_, _, _, _)
\* Mutant of add_str_loop: the loop is left at the first push that fails.
add_str_loop_stops_at_failure(input_str, i, b, ev) ==
    IF ~(i < Len(input_str)) THEN [rb |-> b, ev |-> ev, trace |-> <<>>]
    ELSE Eval({ IF ~pass.ret
                THEN [rb |-> pass.rb, ev |-> pass.ev, trace |-> <<pass>>]
                ELSE Eval({ [rest EXCEPT !.trace = <<pass>> \o @]
                            : rest \in {add_str_loop_stops_at_failure(
                                            input_str, i + 4, pass.rb, pass.ev)} })
                : pass \in {add_str_pass(input_str, i, b, ev)} })

RECURSIVE add_str_loop_steps_by_two(_, _, _, _)
\* Mutant of add_str_loop: the index advances by 2 instead of 4.
add_str_loop_steps_by_two(input_str, i, b, ev) ==
    IF ~(i < Len(input_str)) THEN [rb |-> b, ev |-> ev, trace |-> <<>>]
    ELSE Eval({ Eval({ [rest EXCEPT !.trace = <<pass>> \o @]
                       : rest \in {add_str_loop_steps_by_two(input_str, i + 2,
                                                             pass.rb, pass.ev)} })
                : pass \in {add_str_pass(input_str, i, b, ev)} })

RECURSIVE add_str_loop(_, _, _, _)
\* The loop of add_str_to_buffer from index i on: the buffer and the context
\* after it, and the passes made (see add_str_pass).
add_str_loop(input_str, i, b, ev) ==
    IF ~(i < Len(input_str)) THEN [rb |-> b, ev |-> ev, trace |-> <<>>]
    ELSE Eval({ Eval({ [rest EXCEPT !.trace = <<pass>> \o @]
                       : rest \in {add_str_loop(input_str, i + 4, pass.rb, pass.ev)} })
                : pass \in {add_str_pass(input_str, i, b, ev)} })

add_str_to_buffer(input_str, b, ev) == add_str_loop(input_str, 0, b, ev)

(***************************************************************************)
(* TX_functions.c / RX_functions.c: the framers.  tx and rx are the        *)
(* records of the file-scope variables of each side, level the level of   *)
(* the line (1 high, 0 low).                                               *)
(***************************************************************************)
\* Mutant of timer_TX_ISR: the last alarm leaves bit_counter_TX as it is.
timer_TX_ISR_counter_not_reset(t, level) ==
    IF t.bit_counter_TX < 32
    THEN [tx |-> [t EXCEPT !.bit_counter_TX = @ + 1],
          pin |-> Bit32(t.value_TX, t.bit_counter_TX)]
    ELSE IF t.bit_counter_TX = 32
    THEN [tx |-> [t EXCEPT !.bit_counter_TX = @ + 1], pin |-> 1]
    ELSE [tx |-> [t EXCEPT !.timer_TX = FALSE,
                            !.in_transmission = FALSE],
          pin |-> level]

\* Mutant of timer_TX_ISR: the alarm after the data bits drives the line
\* low.
timer_TX_ISR_stop_low(t, level) ==
    IF t.bit_counter_TX < 32
    THEN [tx |-> [t EXCEPT !.bit_counter_TX = @ + 1],
          pin |-> Bit32(t.value_TX, t.bit_counter_TX)]
    ELSE IF t.bit_counter_TX = 32
    THEN [tx |-> [t EXCEPT !.bit_counter_TX = @ + 1], pin |-> 0]
    ELSE [tx |-> [t EXCEPT !.timer_TX = FALSE,
                            !.in_transmission = FALSE,
                            !.bit_counter_TX = 0],
          pin |-> level]

\* Mutant of timer_TX_ISR: the alarm of the stop bit stops the timer.
timer_TX_ISR_stops_at_stop_bit(t, level) ==
    IF t.bit_counter_TX < 32
    THEN [tx |-> [t EXCEPT !.bit_counter_TX = @ + 1],
          pin |-> Bit32(t.value_TX, t.bit_counter_TX)]
    ELSE [tx |-> [t EXCEPT !.timer_TX = FALSE,
                            !.in_transmission = FALSE,
                            !.bit_counter_TX = 0],
          pin |-> 1]

\* Mutant of timer_TX_ISR: the bits go out most significant first.
timer_TX_ISR_msb_first(t, level) ==
    IF t.bit_counter_TX < 32
    THEN [tx |-> [t EXCEPT !.bit_counter_TX = @ + 1],
          pin |-> Bit32(t.value_TX, 31 - t.bit_counter_TX)]
    ELSE IF t.bit_counter_TX = 32
    THEN [tx |-> [t EXCEPT !.bit_counter_TX = @ + 1], pin |-> 1]
    ELSE [tx |-> [t EXCEPT !.timer_TX = FALSE,
                            !.in_transmission = FALSE,
                            !.bit_counter_TX = 0],
          pin |-> level]

\* Mutant of timer_TX_ISR: the line is held high for two alarms before the
\* timer is stopped.
timer_TX_ISR_two_stop_bits(t, level) ==
    IF t.bit_counter_TX < 32
    THEN [tx |-> [t EXCEPT !.bit_counter_TX = @ + 1],
          pin |-> Bit32(t.value_TX, t.bit_counter_TX)]
    ELSE IF t.bit_counter_TX <= 33
    THEN [tx |-> [t EXCEPT !.bit_counter_TX = @ + 1], pin |-> 1]
    ELSE [tx |-> [t EXCEPT !.timer_TX = FALSE,
                            !.in_transmission = FALSE,
                            !.bit_counter_TX = 0],
          pin |-> level]

\* One alarm of the TX timer: the framer and the line after it.
timer_TX_ISR(t, level) ==
    IF t.bit_counter_TX < 32
    THEN [tx |-> [t EXCEPT !.bit_counter_TX = @ + 1],
          pin |-> Bit32(t.value_TX, t.bit_counter_TX)]
    ELSE IF t.bit_counter_TX = 32
    THEN [tx |-> [t EXCEPT !.bit_counter_TX = @ + 1], pin |-> 1]
    ELSE [tx |-> [t EXCEPT !.timer_TX = FALSE,
                            !.in_transmission = FALSE,
                            !.bit_counter_TX = 0],
          pin |-> level]

\* Mutant of RX_gpio_ISR: the handler stays installed.
RX_gpio_ISR_stays_installed(r) ==
    [r EXCEPT !.value_RX = ZERO32,
               !.bit_counter_RX = 0,
               !.timer_RX = TRUE]

\* The falling-edge handler.
RX_gpio_ISR(r) ==
    [r EXCEPT !.value_RX = ZERO32,
               !.bit_counter_RX = 0,
               !.timer_RX = TRUE,
               !.isr_handler = FALSE]

\* Mutant of timer_RX_ISR: a refused push leaves the timer running and the
\* edge handler removed.
timer_RX_ISR_blocks_when_full(r, level, b) ==
    IF r.bit_counter_RX # 32
    THEN [rx |-> [r EXCEPT !.value_RX = OrBit32(@, level, r.bit_counter_RX),
                            !.bit_counter_RX = (@ + 1) % 256],
          rb |-> b, pushed |-> FALSE, ret |-> FALSE]
    ELSE LET p == ringBufferPush(b, r.value_RX)
         IN  [rx |-> IF p.ret
                     THEN [r EXCEPT !.timer_RX = FALSE,
                                    !.isr_handler = TRUE,
                                    !.reception_complete = TRUE]
                     ELSE r,
              rb |-> p.rb, pushed |-> TRUE, ret |-> p.ret]

\* Mutant of timer_RX_ISR: the complement of the sample is taken.
timer_RX_ISR_inverted(r, level, b) ==
    IF r.bit_counter_RX # 32
    THEN [rx |-> [r EXCEPT !.value_RX = OrBit32(@, 1 - level, r.bit_counter_RX),
                            !.bit_counter_RX = (@ + 1) % 256],
          rb |-> b, pushed |-> FALSE, ret |-> FALSE]
    ELSE LET p == ringBufferPush(b, r.value_RX)
         IN  [rx |-> [r EXCEPT !.timer_RX = FALSE,
                                !.isr_handler = TRUE,
                                !.reception_complete = TRUE],
              rb |-> p.rb, pushed |-> TRUE, ret |-> p.ret]

\* One alarm of the RX timer: the framer and the RX ring buffer after it;
\* pushed tells whether this alarm called ringBufferPush and ret what it
\* returned.
timer_RX_ISR(r, level, b) ==
    IF r.bit_counter_RX # 32
    THEN [rx |-> [r EXCEPT !.value_RX = OrBit32(@, level, r.bit_counter_RX),
                            !.bit_counter_RX = (@ + 1) % 256],
          rb |-> b, pushed |-> FALSE, ret |-> FALSE]
    ELSE LET p == ringBufferPush(b, r.value_RX)
         IN  [rx |-> [r EXCEPT !.timer_RX = FALSE,
                                !.isr_handler = TRUE,
                                !.reception_complete = TRUE],
              rb |-> p.rb, pushed |-> TRUE, ret |-> p.ret]

\* start_transmission: pops into value_TX (the result of the pop is not
\* looked at), drives the line low and starts the timer.
\* Mutant of start_transmission: the word is read at head and left in the
\* buffer.
start_transmission_keeps_word(t, b) ==
    [tx |-> [t EXCEPT !.value_TX = b.buffer[b.head], !.timer_TX = TRUE],
     rb |-> b, pin |-> 0]

start_transmission(t, b) ==
    LET p == ringBufferPop(b, t.value_TX)
    IN  [tx |-> [t EXCEPT !.value_TX = p.value, !.timer_TX = TRUE],
         rb |-> p.rb, pin |-> 0]

(***************************************************************************)
(* RX_functions.c: word consumption.                                       *)
(***************************************************************************)
\* Mutant of splitUint32ToChars: b1 and b2 change places.
splitUint32ToChars_swapped(value) ==
    <<value[1] % 256, value[2] % 256,
      (value[1] \div 256) % 256, (value[2] \div 256) % 256>>

\* b0 = value & 0xFF, b1 = (value >> 8) & 0xFF, b2 = (value >> 16) & 0xFF,
\* b3 = (value >> 24) & 0xFF
splitUint32ToChars(value) ==
    <<value[1] % 256, (value[1] \div 256) % 256,
      value[2] % 256, (value[2] \div 256) % 256>>

\* sizeof(output_str), handed to process_buffer_recursive as max_length
OutputSize == BUFFER_MAX_SIZE * 4 + 1

RECURSIVE AppendBytes(_, _, _)
\* if (*current_length < max_length - 1) output_str[(*current_length)++] = b
\* for each of the bytes in turn
AppendBytes(output_str, bytes, max_length) ==
    IF bytes = <<>> THEN output_str
    ELSE AppendBytes(IF Len(output_str) < max_length - 1
                     THEN Append(output_str, Head(bytes))
                     ELSE output_str,
                     Tail(bytes), max_length)

\* Mutant of process_word: the key is drawn but not applied.
process_word_no_xor(value, ev, d, max_length) ==
    Eval({ [ev |-> k.vars,
            d  |-> [output_str |-> AppendBytes(d.output_str,
                                               splitUint32ToChars(value),
                                               max_length),
                    hex_length |-> d.hex_length + 9],
            ks |-> k.ret, plain |-> value]
           : k \in {key_generator(ev)} })

\* The body of process_buffer_recursive after a successful pop of value:
\* the drain's locals d = [output_str, hex_length] (current_length is the
\* length of output_str) and the RX context after it.  snprintf returns the
\* 9 characters of "%02X%02X%02X%02X " whatever room it was given.
process_word(value, ev, d, max_length) ==
    Eval({ LET plain == Xor32(value, k.ret)
           IN  [ev |-> k.vars,
                d  |-> [output_str |-> AppendBytes(d.output_str,
                                                   splitUint32ToChars(plain),
                                                   max_length),
                        hex_length |-> d.hex_length + 9],
                ks |-> k.ret, plain |-> plain]
           : k \in {key_generator(ev)} })

\* isprint in the "C" locale: the characters from space to tilde.
isprint(c) == 32 <= c /\ c <= 126

\* is_printable_string(output_str, current_length): every byte passes
\* isprint; process_reception_complete logs the text as ASCII only then.
is_printable_string(str) == \A i \in 1..Len(str) : isprint(str[i])

RECURSIVE process_buffer_recursive(_, _, _, _)
\* Whole calls, nothing running in between: pops until a pop fails.  trace
\* lists, per popped word, the word, the key drawn and the decrypted word.
process_buffer_recursive(b, ev, d, max_length) ==
    Eval({ IF p.ret
           THEN Eval({ Eval({ [rest EXCEPT !.trace = <<[cipher |-> p.value, ks |-> w.ks,
                                                        plain |-> w.plain]>> \o @]
                              : rest \in {process_buffer_recursive(p.rb, w.ev, w.d,
                                                                   max_length)} })
                       : w \in {process_word(p.value, ev, d, max_length)} })
           ELSE [rb |-> p.rb, ev |-> ev, d |-> d, trace |-> <<>>]
           : p \in {ringBufferPop(b, ZERO32)} })

\* process_reception_complete without interruption.
process_reception_complete(b, ev) ==
    process_buffer_recursive(b, ev, [output_str |-> <<>>, hex_length |-> 0], OutputSize)

(***************************************************************************)
(* The program before any console command: the globals as their            *)
(* definitions initialise them, the tasks waiting for the configuration,   *)
(* the line driven high by TX_control_task.                                *)
(***************************************************************************)
Directions == {"TX", "RX"}

TXGlobals == [value_TX |-> ZERO32, bit_counter_TX |-> 0,
              in_transmission |-> FALSE, timer_TX |-> FALSE]

RXGlobals == [value_RX |-> ZERO32, bit_counter_RX |-> 0,
              reception_complete |-> FALSE, timer_RX |-> FALSE,
              isr_handler |-> FALSE]

NoDrain == [output_str |-> <<>>, hex_length |-> 0]

NoAdd == [input |-> <<>>, pre_rb |-> createRingBuffer([i \in Index |-> ZERO32]),
          post_rb |-> createRingBuffer([i \in Index |-> ZERO32]),
          pre_ev |-> NoEncryptionVars, post_ev |-> NoEncryptionVars,
          trace |-> <<>>, ret |-> 0, done |-> FALSE]

NoFrame == [word |-> ZERO32, falls |-> 0, taken |-> 0,
            samples |-> <<>>, pushed |-> <<>>, over |-> TRUE,
            alarms |-> [TX |-> 0, RX |-> 0]]

NoDrainYet == [start |-> <<>>, ev |-> NoEncryptionVars,
               popped |-> <<>>, done |-> FALSE]

\* No set_encryption yet.
NoConfig == [type |-> "none", x1 |-> 0, y1 |-> 0, iterations1 |-> 0,
             x2 |-> 0, y2 |-> 0, iterations2 |-> 0]

ZeroArgs == [x1 |-> 0, y1 |-> 0, iterations1 |-> 0,
             x2 |-> 0, y2 |-> 0, iterations2 |-> 0]

\* The console task is between commands.
ConsoleIdle == [pc |-> "idle", dir |-> "TX", type |-> "MAP_DUFFING", a |-> ZeroArgs]

\* No set_encryption yet: nothing given, nothing returned, no call of
\* key_generator_setup.
NoCommand == [given |-> FALSE, dir |-> "TX", type |-> "MAP_DUFFING",
              a |-> ZeroArgs, ret |-> 0, called |-> FALSE,
              ev |-> NoEncryptionVars]

NoMswsRun == [pre |-> [x |-> ZERO64, w |-> ZERO64, s |-> ZERO64],
              last |-> [x |-> ZERO64, w |-> ZERO64, s |-> ZERO64],
              now |-> [x |-> ZERO64, w |-> ZERO64, s |-> ZERO64],
              rets |-> <<>>]

NoMapRun == [it |-> "NULL", pre |-> [x |-> 0, y |-> 0, iterations |-> 0],
             post |-> [x |-> 0, y |-> 0, iterations |-> 0], done |-> FALSE]

SideInit ==
    /\ console = ConsoleIdle
    /\ cfg_hist = NoCommand
    /\ msws_run = NoMswsRun
    /\ map_run = NoMapRun

HistoryInit ==
    /\ cfg_set = [d \in Directions |-> NoConfig]
    /\ ks_log = [d \in Directions |-> <<>>]
    /\ enc_log = <<>>
    /\ dec_log = <<>>
    /\ sent = <<>>
    /\ rcvd = <<>>
    /\ in_step = FALSE
    /\ last_add = NoAdd
    /\ n_cmds = [set |-> 0, add |-> 0]
    /\ frame = NoFrame
    /\ drain = NoDrainYet
    /\ SideInit

GlobalsInit ==
    /\ TX_encryption_vars = NoEncryptionVars
    /\ RX_encryption_vars = NoEncryptionVars
    /\ tx_encryption_set = FALSE
    /\ rx_encryption_set = FALSE
    /\ tx = TXGlobals
    /\ rx = RXGlobals
    /\ pin = 1
    /\ tx_task = [pc |-> "wait"]
    /\ rx_task = [pc |-> "wait", d |-> NoDrain, value |-> ZERO32, size |-> 0]

\* The program part of the state while only the single ring buffer of
\* SpecRB is driven.
ProgramAtRest ==
    /\ GlobalsInit
    /\ HistoryInit
    /\ ring_buffer_TX = createRingBuffer([i \in Index |-> ZERO32])
    /\ ring_buffer_RX = createRingBuffer([i \in Index |-> ZERO32])

(***************************************************************************)
(* SpecRB: one ring buffer, whole calls one at a time.                     *)
(***************************************************************************)
\* The words pushed in SpecRB (and the heap garbage of a fresh buffer).
RBWords == { <<1, 0>>, <<65534, 65535>> }

MaxPushes == BUFFER_MAX_SIZE + ExtraPushes

NoCall == [op |-> "none", arg |-> ZERO32, pre |-> createRingBuffer([i \in Index |-> ZERO32]),
           out_pre |-> ZERO32, ret |-> FALSE]

RB_Init ==
    /\ \E g \in [Index -> RBWords] : rb = createRingBuffer(g)
    /\ out_value \in RBWords
    /\ rb_call = NoCall
    /\ pushed = <<>>
    /\ popped = <<>>
    /\ ProgramAtRest

RB_Push ==
    \E v \in RBWords :
        LET r == ringBufferPush(rb, v) IN
        /\ Len(pushed) < MaxPushes
        /\ rb' = r.rb
        /\ rb_call' = [op |-> "push", arg |-> v, pre |-> rb,
                       out_pre |-> out_value, ret |-> r.ret]
        /\ pushed' = IF r.ret THEN Append(pushed, v) ELSE pushed
        /\ UNCHANGED <<out_value, popped, encvars, bufvars, linkvars, histvars,
                       sidevars>>

RB_Pop ==
    LET r == ringBufferPop(rb, out_value) IN
    /\ rb' = r.rb
    /\ out_value' = r.value
    /\ rb_call' = [op |-> "pop", arg |-> ZERO32, pre |-> rb,
                   out_pre |-> out_value, ret |-> r.ret]
    /\ popped' = IF r.ret THEN Append(popped, r.value) ELSE popped
    /\ UNCHANGED <<pushed, encvars, bufvars, linkvars, histvars, sidevars>>

RB_Next == RB_Push \/ RB_Pop

SpecRB == RB_Init /\ [][RB_Next]_vars

(***************************************************************************)
(* SpecPack: the pipeline from the console to the receiver's log, every    *)
(* handler running as a whole and a frame crossing the line as a whole.    *)
(***************************************************************************)
MaxSetEnc == 3
MaxAdds == 2

Args(x1, y1, i1, x2, y2, i2) ==
    [x1 |-> x1, y1 |-> y1, iterations1 |-> i1,
     x2 |-> x2, y2 |-> y2, iterations2 |-> i2]

\* Arguments of set_encryption that pass its checks, as <<type, values>>;
\* the values are in units of 1/SCALE.
Configs ==
    { <<"MAP_DUFFING", Args(Dbl(1, 10), Dbl(11, 10), min_iterations, Dbl(-5, 10), Dbl(3, 10), 1)>>,
      <<"MAP_LOGISTIC", Args(Dbl(1, 10), Dbl(3, 10), min_iterations + 1, Dbl(7, 10), Dbl(2, 10), min_iterations)>> }

\* Argument strings of transmit, as bytes: "", "Hi!", five bytes with the
\* top bit in play, and "Hello World!".
Messages ==
    { <<>>,
      <<72, 105, 33>>,
      <<200, 255, 128, 1, 65>>,
      <<72, 101, 108, 108, 111, 32, 87, 111, 114, 108, 100, 33>> }

\* buffer[] of a new ring buffer holds whatever the heap held.
Garbage == { [i \in Index |-> w] : w \in { ZERO32, <<65535, 65535>> } }

P_Init ==
    /\ GlobalsInit
    /\ HistoryInit
    /\ \E g \in Garbage : /\ ring_buffer_TX = createRingBuffer(g)
                          /\ ring_buffer_RX = createRingBuffer(g)
    /\ rb = createRingBuffer([i \in Index |-> ZERO32])
    /\ out_value = ZERO32
    /\ rb_call = NoCall
    /\ pushed = <<>>
    /\ popped = <<>>

\* One alarm of the TX timer, if it is running, and the alarm of the RX
\* timer after it, if that is running: the RX timer is started by the
\* falling edge of the start bit, so its k-th alarm falls between the k-th
\* and the (k+1)-th alarm of the TX timer.  f is [tx, rx, pin, rb, pushes];
\* pushes lists what the pushes of the RX alarms returned.
AlarmPair(f) ==
    IF ~f.tx.timer_TX THEN f
    ELSE Eval({ IF f.rx.timer_RX
                THEN Eval({ [tx |-> a.tx, rx |-> c.rx, pin |-> a.pin, rb |-> c.rb,
                             pushes |-> IF c.pushed THEN Append(f.pushes, c.ret)
                                        ELSE f.pushes]
                            : c \in {timer_RX_ISR(f.rx, a.pin, f.rb)} })
                ELSE [f EXCEPT !.tx = a.tx, !.pin = a.pin]
                : a \in {timer_TX_ISR(f.tx, f.pin)} })

RECURSIVE AlarmPairs(_, _)
\* n times AlarmPair; the count is split in two to keep the evaluation
\* shallow.
AlarmPairs(f, n) ==
    IF n = 0 THEN f
    ELSE IF n = 1 THEN AlarmPair(f)
    ELSE Eval({ AlarmPairs(h, n - (n \div 2)) : h \in {AlarmPairs(f, n \div 2)} })

\* The alarms of one frame: 32 data bits, the stop bit and the alarm that
\* stops the TX timer.
RunFrame(t, r, level, b) ==
    Eval({ AlarmPairs(f, 32 + 2)
           : f \in {[tx |-> t, rx |-> r, pin |-> level, rb |-> b, pushes |-> <<>>]} })

\* What the last set_encryption of a direction stored, after the clamping
\* of the iteration counts.
Stored(c) ==
    [type |-> c[1], x1 |-> c[2].x1, y1 |-> c[2].y1,
     iterations1 |-> check_iterations(c[2].iterations1, c[1]),
     x2 |-> c[2].x2, y2 |-> c[2].y2,
     iterations2 |-> check_iterations(c[2].iterations2, c[1])]

\* set_encryption with arguments that pass the checks.
P_SetEncryption ==
    \E d \in Directions, c \in Configs :
        LET cfg == [cfg_set EXCEPT ![d] = Stored(c)]
            ks  == [ks_log EXCEPT ![d] = <<>>]
            now == /\ cfg["TX"] = cfg["RX"]
                   /\ ks["TX"] = <<>> /\ ks["RX"] = <<>>
                   /\ ringBufferIsEmpty(ring_buffer_TX)
                   /\ ringBufferIsEmpty(ring_buffer_RX)
        IN
        /\ n_cmds.set < MaxSetEnc
        /\ IF d = "TX"
           THEN /\ tx_encryption_set' = TRUE
                /\ TX_encryption_vars' = cmd_set_encryption_store(TX_encryption_vars, c[1], c[2])
                /\ enc_log' = <<>>
                /\ UNCHANGED <<rx_encryption_set, RX_encryption_vars, dec_log>>
           ELSE /\ rx_encryption_set' = TRUE
                /\ RX_encryption_vars' = cmd_set_encryption_store(RX_encryption_vars, c[1], c[2])
                /\ dec_log' = <<>>
                /\ UNCHANGED <<tx_encryption_set, TX_encryption_vars, enc_log>>
        /\ cfg_set' = cfg
        /\ ks_log' = ks
        /\ in_step' = now
        /\ sent' = <<>>
        /\ rcvd' = <<>>
        /\ n_cmds' = [n_cmds EXCEPT !.set = @ + 1]
        /\ UNCHANGED <<rbvars, sidevars, bufvars, linkvars, last_add, linkhist>>

\* TX_control_task leaves its wait for the two flags.
P_TXEnter ==
    /\ tx_task.pc = "wait"
    /\ tx_encryption_set /\ rx_encryption_set
    /\ tx_task' = [tx_task EXCEPT !.pc = "loop"]
    /\ UNCHANGED <<rbvars, sidevars, encvars, bufvars, tx, rx, pin, rx_task, histvars>>

\* RX_control_task leaves its wait for rx_encryption_set and installs the
\* edge handler.
P_RXEnter ==
    /\ rx_task.pc = "wait"
    /\ rx_encryption_set
    /\ rx_task' = [rx_task EXCEPT !.pc = "loop"]
    /\ rx' = [rx EXCEPT !.isr_handler = TRUE]
    /\ UNCHANGED <<rbvars, sidevars, encvars, bufvars, tx, pin, tx_task, histvars>>

\* check_encryption_settings(true, true)
check_encryption_settings_both == tx_encryption_set /\ rx_encryption_set

\* The transmit command with one argument string: refused with 1 unless
\* both directions are configured, else the string goes through
\* add_str_to_buffer and the command returns 0.
P_Transmit ==
    \E m \in Messages :
        /\ n_cmds.add < MaxAdds
        /\ n_cmds' = [n_cmds EXCEPT !.add = @ + 1]
        /\ IF ~check_encryption_settings_both
           THEN /\ last_add' = [NoAdd EXCEPT !.input = m, !.ret = 1]
                /\ UNCHANGED <<TX_encryption_vars, ring_buffer_TX, ks_log,
                               enc_log, sent, in_step>>
           ELSE \E r \in {add_str_to_buffer(m, ring_buffer_TX, TX_encryption_vars)} :
                /\ ring_buffer_TX' = r.rb
                /\ TX_encryption_vars' = r.ev
                /\ last_add' = [input |-> m, pre_rb |-> ring_buffer_TX,
                                post_rb |-> r.rb,
                                pre_ev |-> TX_encryption_vars, post_ev |-> r.ev,
                                trace |-> r.trace, ret |-> 0, done |-> TRUE]
                /\ ks_log' = [ks_log EXCEPT
                                !["TX"] = @ \o [i \in 1..Len(r.trace) |-> r.trace[i].ks]]
                /\ enc_log' = enc_log \o
                                [i \in 1..Len(r.trace) |->
                                    [group |-> r.trace[i].group,
                                     value |-> r.trace[i].value]]
                /\ sent' = IF in_step THEN Append(sent, m) ELSE sent
                /\ in_step' = (in_step /\ \A i \in 1..Len(r.trace) : r.trace[i].ret)
        /\ UNCHANGED <<rbvars, sidevars, RX_encryption_vars, tx_encryption_set,
                       rx_encryption_set, ring_buffer_RX, linkvars,
                       cfg_set, dec_log, rcvd, linkhist>>

\* One pass of the TX loop that finds a word to send, and the frame that
\* follows: check_TX, start_transmission, the falling edge at the receiver
\* (taken by RX_gpio_ISR when it is installed) and the alarms of both
\* timers up to the one that stops the TX timer.
P_Link ==
    /\ tx_task.pc = "loop"
    /\ ~ringBufferIsEmpty(ring_buffer_TX)
    /\ ~tx.in_transmission
    /\ \E s \in {start_transmission([tx EXCEPT !.in_transmission = TRUE], ring_buffer_TX)} :
       \E e \in {IF rx.isr_handler /\ pin = 1 /\ s.pin = 0 THEN RX_gpio_ISR(rx) ELSE rx} :
       \E f \in {RunFrame(s.tx, e, s.pin, ring_buffer_RX)} :
           /\ ~f.tx.timer_TX
           /\ ring_buffer_TX' = s.rb
           /\ tx' = f.tx
           /\ rx' = f.rx
           /\ pin' = f.pin
           /\ ring_buffer_RX' = f.rb
           /\ in_step' = (in_step /\ f.pushes = <<TRUE>>)
    /\ UNCHANGED <<rbvars, sidevars, encvars, tx_task, rx_task, cfg_set, ks_log, enc_log,
                   dec_log, sent, rcvd, last_add, n_cmds, linkhist>>

\* One pass of the RX loop that finds reception_complete set: check_RX with
\* its whole drain.
P_Drain ==
    /\ rx_task.pc = "loop"
    /\ rx.reception_complete
    /\ \E r \in {process_reception_complete(ring_buffer_RX, RX_encryption_vars)} :
           /\ ring_buffer_RX' = r.rb
           /\ RX_encryption_vars' = r.ev
           /\ rx_task' = [rx_task EXCEPT !.d = r.d]
           /\ ks_log' = [ks_log EXCEPT
                           !["RX"] = @ \o [i \in 1..Len(r.trace) |-> r.trace[i].ks]]
           /\ dec_log' = dec_log \o
                           [i \in 1..Len(r.trace) |->
                               [cipher |-> r.trace[i].cipher,
                                plain |-> r.trace[i].plain]]
           /\ rcvd' = IF in_step THEN rcvd \o r.d.output_str ELSE rcvd
    /\ rx' = [rx EXCEPT !.reception_complete = FALSE]
    /\ UNCHANGED <<rbvars, sidevars, TX_encryption_vars, tx_encryption_set,
                   rx_encryption_set, ring_buffer_TX, tx, pin, tx_task,
                   cfg_set, enc_log, sent, in_step, last_add, n_cmds, linkhist>>

P_Next ==
    \/ P_SetEncryption
    \/ P_TXEnter
    \/ P_RXEnter
    \/ P_Transmit
    \/ P_Link
    \/ P_Drain

SpecPack == P_Init /\ [][P_Next]_vars

(***************************************************************************)
(* SpecCfg: the console task inside set_encryption while the two tasks     *)
(* wait for the flags.  cmd_set_encryption sets the flag of its direction  *)
(* right after the range checks; what follows (the stores, the clamping,   *)
(* malloc, key_generator_setup with its iteration loops) is a second step, *)
(* and the tasks, which poll the flags, run between the two.  A call       *)
(* through a null pointer or a store through one stops the program         *)
(* (console.pc = "panic").                                                 *)
(***************************************************************************)
MaxCfgCmds == 2
MaxCfgAdds == 1

\* Arguments of set_encryption beside Configs: a third map type, a
\* coordinate above and one below the range, the ends of a range with
\* iteration counts beside the limits, a NaN, an unknown map name.
CfgCommands ==
    Configs \cup
    { <<"MAP_2D_LOGISTIC", Args(Dbl(2, 10), Dbl(3, 10), min_iterations,
                                Dbl(1, 10), Dbl(4, 10), max_iterations)>>,
      <<"MAP_DUFFING", Args(Dbl(13, 10), Dbl(1, 10), min_iterations,
                            Dbl(1, 10), Dbl(1, 10), min_iterations)>>,
      <<"MAP_LOGISTIC", Args(Dbl(5, 10), Dbl(5, 10), min_iterations,
                             Dbl(5, 10), Dbl(-1, 10), min_iterations)>>,
      <<"MAP_LOGISTIC", Args(Dbl(1, 1), Dbl(0, 1), min_iterations - 3,
                             Dbl(3, 10), Dbl(7, 10), max_iterations + 5)>>,
      <<"MAP_LOGISTIC", Args(NaN, Dbl(3, 10), min_iterations,
                             Dbl(2, 10), Dbl(4, 10), min_iterations)>>,
      <<"unknown", Args(Dbl(1, 10), Dbl(1, 10), min_iterations,
                        Dbl(1, 10), Dbl(1, 10), min_iterations)>> }

\* The argument string of transmit in SpecCfg.
CfgMessages == { <<200, 255, 128, 1, 65>> }

\* The context can be handed to key_generator: the iterator and the MSWS
\* state are there.
Ready(ev) ==
    /\ ev.chaotic_map_iterator # "NULL"
    /\ "x" \in DOMAIN ev.msws32_variables

Context(d) == IF d = "TX" THEN TX_encryption_vars ELSE RX_encryption_vars

\* cmd_set_encryption, lines 309-344: the context as key_generator_setup
\* receives it, msws being the zeroed MSWS state or NULL.
cmd_set_encryption_values(ev, map_type, a, msws) ==
    [ev EXCEPT !.type = map_type,
               !.chaotic_map1 = [x |-> a.x1, y |-> a.y1,
                                 iterations |-> check_iterations(a.iterations1, map_type)],
               !.chaotic_map2 = [x |-> a.x2, y |-> a.y2,
                                 iterations |-> check_iterations(a.iterations2, map_type)],
               !.msws32_variables = msws]

C_Init == P_Init

\* cmd_set_encryption up to the flag: a refused command returns 1 and
\* changes nothing.
C_SetEncryptionBegin ==
    \E d \in Directions, c \in CfgCommands :
        /\ console.pc = "idle"
        /\ n_cmds.set < MaxCfgCmds
        /\ n_cmds' = [n_cmds EXCEPT !.set = @ + 1]
        /\ IF /\ check_double_range(c[2].x1, c[1])
              /\ check_double_range(c[2].y1, c[1])
              /\ check_double_range(c[2].x2, c[1])
              /\ check_double_range(c[2].y2, c[1])
           THEN /\ IF d = "RX"
                   THEN rx_encryption_set' = TRUE /\ UNCHANGED tx_encryption_set
                   ELSE tx_encryption_set' = TRUE /\ UNCHANGED rx_encryption_set
                /\ console' = [pc |-> "setup", dir |-> d, type |-> c[1], a |-> c[2]]
                /\ cfg_hist' = [NoCommand EXCEPT !.given = TRUE, !.dir = d,
                                                 !.type = c[1], !.a = c[2]]
           ELSE /\ cfg_hist' = [NoCommand EXCEPT !.given = TRUE, !.dir = d,
                                                 !.type = c[1], !.a = c[2],
                                                 !.ret = 1]
                /\ UNCHANGED <<tx_encryption_set, rx_encryption_set, console>>
        /\ UNCHANGED <<rbvars, TX_encryption_vars, RX_encryption_vars, bufvars,
                       linkvars, packhist, linkhist, msws_run, map_run>>

\* The rest of cmd_set_encryption: the stores, the clamping of the
\* iteration counts, malloc (ok tells whether it gave memory) and
\* key_generator_setup.
C_SetEncryptionEnd ==
    \E ok \in BOOLEAN :
        /\ console.pc = "setup"
        /\ \E ev \in {cmd_set_encryption_values(
                          Context(console.dir), console.type, console.a,
                          IF ok THEN [x |-> ZERO64, w |-> ZERO64, s |-> ZERO64]
                          ELSE NullMsws)} :
           \E after \in {IF ok THEN cmd_set_encryption_store(Context(console.dir),
                                                             console.type, console.a)
                         ELSE ev} :
              /\ IF console.dir = "TX"
                 THEN TX_encryption_vars' = after /\ UNCHANGED RX_encryption_vars
                 ELSE RX_encryption_vars' = after /\ UNCHANGED TX_encryption_vars
              /\ cfg_hist' = [cfg_hist EXCEPT !.ret = IF ok THEN 0 ELSE 1,
                                              !.called = ok, !.ev = ev]
        /\ console' = ConsoleIdle
        /\ UNCHANGED <<rbvars, tx_encryption_set, rx_encryption_set, bufvars,
                       linkvars, histvars, msws_run, map_run>>

C_TXEnter == console.pc # "panic" /\ P_TXEnter

C_RXEnter == console.pc # "panic" /\ P_RXEnter

\* cmd_transmit between two set_encryption commands: key_generator is
\* called on the TX context as it is.
C_Transmit ==
    \E m \in CfgMessages :
        /\ console.pc = "idle"
        /\ n_cmds.add < MaxCfgAdds
        /\ n_cmds' = [n_cmds EXCEPT !.add = @ + 1]
        /\ IF ~check_encryption_settings_both
           THEN UNCHANGED <<TX_encryption_vars, ring_buffer_TX, console>>
           ELSE IF ~Ready(TX_encryption_vars)
           THEN /\ console' = [console EXCEPT !.pc = "panic"]
                /\ UNCHANGED <<TX_encryption_vars, ring_buffer_TX>>
           ELSE \E r \in {add_str_to_buffer(m, ring_buffer_TX, TX_encryption_vars)} :
                   /\ ring_buffer_TX' = r.rb
                   /\ TX_encryption_vars' = r.ev
                   /\ UNCHANGED console
        /\ UNCHANGED <<rbvars, RX_encryption_vars, tx_encryption_set,
                       rx_encryption_set, ring_buffer_RX, linkvars, packhist,
                       linkhist, cfg_hist, msws_run, map_run>>

C_Link == console.pc # "panic" /\ P_Link

\* check_RX with its drain: key_generator is called on the RX context as it
\* is, once per popped word.
C_Drain ==
    /\ console.pc # "panic"
    /\ IF Ready(RX_encryption_vars) \/ ringBufferIsEmpty(ring_buffer_RX)
       THEN P_Drain
       ELSE /\ rx_task.pc = "loop"
            /\ rx.reception_complete
            /\ console' = [console EXCEPT !.pc = "panic"]
            /\ UNCHANGED <<rbvars, encvars, bufvars, linkvars, histvars,
                           cfg_hist, msws_run, map_run>>

C_Next ==
    \/ C_SetEncryptionBegin
    \/ C_SetEncryptionEnd
    \/ C_TXEnter
    \/ C_RXEnter
    \/ C_Transmit
    \/ C_Link
    \/ C_Drain

SpecCfg == C_Init /\ [][C_Next]_vars

(***************************************************************************)
(* SpecNum: msws32, the map iterations and key_generator called on chosen  *)
(* values, apart from the rest of the program.  In a run of key_generator  *)
(* the context is TX_encryption_vars; msws_run holds the MSWS state before *)
(* the last call, the one that call handed to msws32 and the one after it, *)
(* map_run holds chaotic_map1 before and after the last call.              *)
(***************************************************************************)
MaxMswsCalls == 3

\* Values of the uint64_t fields of an MSWS state: 0, 1, 2^32, 2^64 - 1,
\* 0x0123456789ABCDEF, 2^32 - 2 and (2^32 - 2) * 2^32.
MswsWords ==
    { ZERO64,
      <<1, 0, 0, 0, 0, 0, 0, 0>>,
      <<0, 0, 0, 0, 1, 0, 0, 0>>,
      <<255, 255, 255, 255, 255, 255, 255, 255>>,
      <<239, 205, 171, 137, 103, 69, 35, 1>>,
      <<254, 255, 255, 255, 0, 0, 0, 0>>,
      <<0, 0, 0, 0, 254, 255, 255, 255>> }

\* Coordinates of a map: 0.1, 1.1, -0.5, 0 and 0.7.
MapValues == { Dbl(1, 10), Dbl(11, 10), Dbl(-5, 10), 0, Dbl(7, 10) }

MapIterators == { get_chaotic_map_iterator_t(t) : t \in MapTypes }

\* The commands whose contexts key_generator is run on: those of
\* CfgCommands with four numbers of the domain for coordinates.
KgConfigs ==
    { c \in CfgCommands :
        \A v \in {c[2].x1, c[2].y1, c[2].x2, c[2].y2} :
            ~IsNaN(v) /\ check_double_range(v, c[1]) }

N_Init ==
    /\ RX_encryption_vars = NoEncryptionVars
    /\ tx_encryption_set = FALSE
    /\ rx_encryption_set = FALSE
    /\ tx = TXGlobals
    /\ rx = RXGlobals
    /\ pin = 1
    /\ tx_task = [pc |-> "wait"]
    /\ rx_task = [pc |-> "wait", d |-> NoDrain, value |-> ZERO32, size |-> 0]
    /\ cfg_set = [d \in Directions |-> NoConfig]
    /\ ks_log = [d \in Directions |-> <<>>]
    /\ enc_log = <<>>
    /\ dec_log = <<>>
    /\ sent = <<>>
    /\ rcvd = <<>>
    /\ in_step = FALSE
    /\ last_add = NoAdd
    /\ n_cmds = [set |-> 0, add |-> 0]
    /\ frame = NoFrame
    /\ drain = NoDrainYet
    /\ console = ConsoleIdle
    /\ cfg_hist = NoCommand
    /\ ring_buffer_TX = createRingBuffer([i \in Index |-> ZERO32])
    /\ ring_buffer_RX = createRingBuffer([i \in Index |-> ZERO32])
    /\ rb = createRingBuffer([i \in Index |-> ZERO32])
    /\ out_value = ZERO32
    /\ rb_call = NoCall
    /\ pushed = <<>>
    /\ popped = <<>>
    /\ \/ /\ \E x \in MswsWords, w \in MswsWords, s \in MswsWords :
                msws_run = [pre |-> [x |-> x, w |-> w, s |-> s],
                            last |-> [x |-> x, w |-> w, s |-> s],
                            now |-> [x |-> x, w |-> w, s |-> s],
                            rets |-> <<>>]
          /\ map_run = NoMapRun
          /\ TX_encryption_vars = NoEncryptionVars
       \/ /\ msws_run = NoMswsRun
          /\ map_run = NoMapRun
          /\ \E c \in KgConfigs :
                TX_encryption_vars = cmd_set_encryption_store(NoEncryptionVars, c[1], c[2])
       \/ /\ msws_run = NoMswsRun
          /\ TX_encryption_vars = NoEncryptionVars
          /\ \E it \in MapIterators, x \in MapValues, y \in MapValues :
                map_run = [it |-> it, pre |-> [x |-> x, y |-> y, iterations |-> 1],
                           post |-> [x |-> x, y |-> y, iterations |-> 1],
                           done |-> FALSE]

\* One call of msws32 on the state of the run.
N_Msws ==
    /\ map_run = NoMapRun
    /\ ~Ready(TX_encryption_vars)
    /\ Len(msws_run.rets) < MaxMswsCalls
    /\ \E r \in {msws32(msws_run.now)} :
          msws_run' = [msws_run EXCEPT !.last = msws_run.now,
                                       !.now = r.vars,
                                       !.rets = Append(@, r.ret)]
    /\ UNCHANGED <<rbvars, encvars, bufvars, linkvars, histvars, console,
                   cfg_hist, map_run>>

\* One call through the function pointer of a map.
N_Iterate ==
    /\ map_run.it # "NULL"
    /\ ~map_run.done
    /\ \E m \in {chaotic_map_iterator(map_run.it, map_run.pre)} :
          map_run' = [map_run EXCEPT !.post = m, !.done = TRUE]
    /\ UNCHANGED <<rbvars, encvars, bufvars, linkvars, histvars, console,
                   cfg_hist, msws_run>>

\* One call of key_generator on the context.
N_KeyGenerator ==
    /\ Ready(TX_encryption_vars)
    /\ Len(msws_run.rets) < MaxMswsCalls
    /\ \E r \in {key_generator(TX_encryption_vars)} :
          /\ TX_encryption_vars' = r.vars
          /\ \E m1 \in {r.vars.chaotic_map1} :
                msws_run' =
                    [pre |-> TX_encryption_vars.msws32_variables,
                     last |-> [TX_encryption_vars.msws32_variables EXCEPT
                                 !.w = IF TX_encryption_vars.type = "MAP_LOGISTIC"
                                       THEN Xor64(doubleToUint64Bits(m1.y),
                                                  doubleToUint64Bits(m1.x))
                                       ELSE doubleToUint64Bits(m1.y)],
                     now |-> r.vars.msws32_variables,
                     rets |-> Append(msws_run.rets, r.ret)]
          /\ map_run' = [it |-> TX_encryption_vars.chaotic_map_iterator,
                         pre |-> TX_encryption_vars.chaotic_map1,
                         post |-> r.vars.chaotic_map1,
                         done |-> TRUE]
    /\ UNCHANGED <<rbvars, RX_encryption_vars, tx_encryption_set,
                   rx_encryption_set, bufvars, linkvars, histvars, console,
                   cfg_hist>>

N_Next == N_Msws \/ N_Iterate \/ N_KeyGenerator

SpecNum == N_Init /\ [][N_Next]_vars

(***************************************************************************)
(* Spec: the running link.  Both directions are configured with the same   *)
(* values and the two tasks are in their loops; the console task issues    *)
(* transmit commands while the TX task, the RX task and the three          *)
(* interrupt handlers take their steps one at a time.  The handlers of the *)
(* receiver run on the core of RX_control_task and preempt it between any  *)
(* two of its memory accesses, so ringBufferPop on ring_buffer_RX is two   *)
(* steps: up to the load of size, and from the store of size - 1 on.  Both *)
(* timers have the same period and the RX timer is started by the edge of  *)
(* the start bit, so the k-th alarm of the RX timer falls between the k-th *)
(* and the (k+1)-th alarm of the TX timer.  The console task and the TX    *)
(* task take their ring buffer calls on ring_buffer_TX whole.  Of the      *)
(* history only frame and drain are kept up.                               *)
(***************************************************************************)
\* Argument strings of transmit on the running link: two and three words.
LinkMessages == { m \in Messages : Len(m) > 4 }

\* The configuration of the running link.
LinkConfigs == { c \in Configs : c[1] = "MAP_LOGISTIC" }

\* The receiver's view of a change of the line: RX_gpio_ISR runs on a
\* falling edge while it is installed.
Edge(r, before, after) ==
    IF before = 1 /\ after = 0 /\ r.isr_handler THEN RX_gpio_ISR(r) ELSE r

\* 1 for a falling edge of the line, else 0
Fall(before, after) == IF before = 1 /\ after = 0 THEN 1 ELSE 0

\* 1 when RX_gpio_ISR ran on the change, else 0
Taken(r, before, after) ==
    IF before = 1 /\ after = 0 /\ r.isr_handler THEN 1 ELSE 0

Init ==
    /\ \E c \in LinkConfigs :
          /\ TX_encryption_vars = cmd_set_encryption_store(NoEncryptionVars, c[1], c[2])
          /\ RX_encryption_vars = cmd_set_encryption_store(NoEncryptionVars, c[1], c[2])
          /\ cfg_set = [d \in Directions |-> Stored(c)]
    /\ tx_encryption_set = TRUE
    /\ rx_encryption_set = TRUE
    /\ tx = TXGlobals
    /\ rx = [RXGlobals EXCEPT !.isr_handler = TRUE]
    /\ pin = 1
    /\ tx_task = [pc |-> "loop"]
    /\ rx_task = [pc |-> "loop", d |-> NoDrain, value |-> ZERO32, size |-> 0]
    /\ ring_buffer_TX = createRingBuffer([i \in Index |-> <<65535, 65535>>])
    /\ ring_buffer_RX = createRingBuffer([i \in Index |-> <<65535, 65535>>])
    /\ ks_log = [d \in Directions |-> <<>>]
    /\ enc_log = <<>>
    /\ dec_log = <<>>
    /\ sent = <<>>
    /\ rcvd = <<>>
    /\ in_step = TRUE
    /\ last_add = NoAdd
    /\ n_cmds = [set |-> 2, add |-> 0]
    /\ frame = NoFrame
    /\ drain = NoDrainYet
    /\ SideInit
    /\ rb = createRingBuffer([i \in Index |-> ZERO32])
    /\ out_value = ZERO32
    /\ rb_call = NoCall
    /\ pushed = <<>>
    /\ popped = <<>>

\* cmd_transmit on the console task.
Transmit ==
    \E m \in LinkMessages :
        /\ n_cmds.add < MaxAdds
        /\ n_cmds' = [n_cmds EXCEPT !.add = @ + 1]
        /\ check_encryption_settings_both
        /\ \E r \in {add_str_to_buffer(m, ring_buffer_TX, TX_encryption_vars)} :
              /\ ring_buffer_TX' = r.rb
              /\ TX_encryption_vars' = r.ev
        /\ UNCHANGED <<rbvars, sidevars, RX_encryption_vars, tx_encryption_set,
                       rx_encryption_set, ring_buffer_RX, linkvars,
                       packhist, linkhist>>

\* Mutant of CheckTX: the occupancy of ring_buffer_TX is not looked at.
CheckTX_ignores_occupancy ==
    /\ tx_task.pc = "loop"
    /\ ~tx.in_transmission
    /\ tx' = [tx EXCEPT !.in_transmission = TRUE]
    /\ tx_task' = [tx_task EXCEPT !.pc = "delay"]
    /\ UNCHANGED <<rbvars, sidevars, encvars, bufvars, rx, pin, rx_task, histvars>>

\* check_TX finds a word and no transmission in course: it sets
\* in_transmission and goes into its delay.
CheckTX ==
    /\ tx_task.pc = "loop"
    /\ ~ringBufferIsEmpty(ring_buffer_TX)
    /\ ~tx.in_transmission
    /\ tx' = [tx EXCEPT !.in_transmission = TRUE]
    /\ tx_task' = [tx_task EXCEPT !.pc = "delay"]
    /\ UNCHANGED <<rbvars, sidevars, encvars, bufvars, rx, pin, rx_task, histvars>>

\* start_transmission after the delay: the pop, the start bit on the line
\* (and RX_gpio_ISR at the receiver when the line falls), the timer.
StartTransmission ==
    /\ tx_task.pc = "delay"
    /\ \E s \in {start_transmission(tx, ring_buffer_TX)} :
          /\ tx' = s.tx
          /\ ring_buffer_TX' = s.rb
          /\ pin' = s.pin
          /\ rx' = Edge(rx, pin, s.pin)
          /\ frame' = [word |-> s.tx.value_TX,
                       falls |-> Fall(pin, s.pin),
                       taken |-> Taken(rx, pin, s.pin),
                       samples |-> <<>>, pushed |-> <<>>, over |-> FALSE,
                       alarms |-> [TX |-> 0, RX |-> 0]]
    /\ tx_task' = [tx_task EXCEPT !.pc = "loop"]
    /\ UNCHANGED <<rbvars, sidevars, encvars, ring_buffer_RX, rx_task, packhist, n_cmds, drain>>

\* An alarm of the TX timer.
TimerTX ==
    /\ tx.timer_TX
    /\ ~rx.timer_RX \/ rx.bit_counter_RX = tx.bit_counter_TX
    /\ \E a \in {timer_TX_ISR(tx, pin)} :
          /\ tx' = a.tx
          /\ pin' = a.pin
          /\ rx' = Edge(rx, pin, a.pin)
          /\ frame' = [frame EXCEPT !.falls = @ + Fall(pin, a.pin),
                                    !.taken = @ + Taken(rx, pin, a.pin),
                                    !.over = ~a.tx.timer_TX,
                                    !.alarms.TX = @ + 1]
    /\ UNCHANGED <<rbvars, sidevars, encvars, bufvars, tx_task, rx_task, packhist, n_cmds, drain>>

\* An alarm of the RX timer.
TimerRX ==
    /\ rx.timer_RX
    /\ ~tx.timer_TX \/ rx.bit_counter_RX < tx.bit_counter_TX
    /\ \E c \in {timer_RX_ISR(rx, pin, ring_buffer_RX)} :
          /\ rx' = c.rx
          /\ ring_buffer_RX' = c.rb
          /\ frame' = IF c.pushed
                      THEN [frame EXCEPT !.pushed = Append(@, [value |-> rx.value_RX,
                                                               ret |-> c.ret]),
                                         !.alarms.RX = @ + 1]
                      ELSE [frame EXCEPT !.samples = Append(@, pin),
                                         !.alarms.RX = @ + 1]
    /\ UNCHANGED <<rbvars, sidevars, encvars, ring_buffer_TX, tx, pin, tx_task, rx_task,
                   packhist, n_cmds, drain>>

\* check_RX finds reception_complete set and calls
\* process_reception_complete with its fresh locals.
CheckRX ==
    /\ rx_task.pc = "loop"
    /\ rx.reception_complete
    /\ rx_task' = [rx_task EXCEPT !.pc = "pop", !.d = NoDrain]
    /\ drain' = [start |-> RBContents(ring_buffer_RX), ev |-> RX_encryption_vars, popped |-> <<>>, done |-> FALSE]
    /\ UNCHANGED <<rbvars, sidevars, encvars, bufvars, tx, rx, pin, tx_task, packhist,
                   n_cmds, frame>>

\* ringBufferPop in process_buffer_recursive up to the load of size for
\* size--: the emptiness test, *value = buffer[head], the new head.  On an
\* empty buffer the pop fails and the recursion returns.
PopRead ==
    /\ rx_task.pc = "pop"
    /\ IF ringBufferIsEmpty(ring_buffer_RX)
       THEN /\ rx_task' = [rx_task EXCEPT !.pc = "clear"]
            /\ drain' = [drain EXCEPT !.done = TRUE]
            /\ UNCHANGED ring_buffer_RX
       ELSE /\ rx_task' = [rx_task EXCEPT
                             !.pc = "store",
                             !.value = ring_buffer_RX.buffer[ring_buffer_RX.head],
                             !.size = ring_buffer_RX.size]
            /\ ring_buffer_RX' = [ring_buffer_RX EXCEPT
                                    !.head = (@ + 1) % BUFFER_MAX_SIZE]
            /\ UNCHANGED drain
    /\ UNCHANGED <<rbvars, sidevars, encvars, ring_buffer_TX, tx, rx, pin, tx_task,
                   packhist, n_cmds, frame>>

\* The store of size--, the return of the pop and the rest of this level
\* of process_buffer_recursive, down to its recursive call.
PopStore ==
    /\ rx_task.pc = "store"
    /\ ring_buffer_RX' = [ring_buffer_RX EXCEPT !.size = rx_task.size - 1]
    /\ \E w \in {process_word(rx_task.value, RX_encryption_vars, rx_task.d, OutputSize)} :
          /\ RX_encryption_vars' = w.ev
          /\ rx_task' = [rx_task EXCEPT !.pc = "pop", !.d = w.d,
                                         !.value = ZERO32, !.size = 0]
    /\ drain' = [drain EXCEPT !.popped = Append(@, rx_task.value)]
    /\ UNCHANGED <<rbvars, sidevars, TX_encryption_vars, tx_encryption_set,
                   rx_encryption_set, ring_buffer_TX, tx, rx, pin, tx_task,
                   packhist, n_cmds, frame>>

\* process_reception_complete has returned and its locals are gone:
\* reception_complete = false.
ClearFlag ==
    /\ rx_task.pc = "clear"
    /\ rx' = [rx EXCEPT !.reception_complete = FALSE]
    /\ rx_task' = [rx_task EXCEPT !.pc = "loop", !.d = NoDrain]
    /\ drain' = NoDrainYet
    /\ UNCHANGED <<rbvars, sidevars, encvars, bufvars, tx, pin, tx_task, packhist,
                   n_cmds, frame>>

Next ==
    \/ Transmit
    \/ CheckTX
    \/ StartTransmission
    \/ TimerTX
    \/ TimerRX
    \/ CheckRX
    \/ PopRead
    \/ PopStore
    \/ ClearFlag

Spec == Init /\ [][Next]_vars

\* The timers fire while they run and the TX task is scheduled again and
\* again (both run on hardware timers and on the tick of the scheduler).
FairSpec ==
    /\ Spec
    /\ WF_vars(CheckTX)
    /\ WF_vars(StartTransmission)
    /\ WF_vars(TimerTX)
    /\ WF_vars(TimerRX)

(***************************************************************************)
(* Properties of SpecRB.                                                   *)
(***************************************************************************)
\* C1 (ring buffer FIFO law): under whole, non-interleaved calls the values
\* yielded by the successful pops are the values of the successful pushes in
\* the same order: the popped values are the leading part of the pushed
\* values and the words still stored are the rest of them, in order, also
\* after the indices have wrapped.
C1_FifoLaw ==
    /\ Len(popped) <= Len(pushed)
    /\ popped = SubSeq(pushed, 1, Len(popped))
    /\ RBContents(rb) = SubSeq(pushed, Len(popped) + 1, Len(pushed))

\* C1 witness: a successful pop from slot 0 after head has wrapped around,
\* with both distinct words among the popped values.
C1_Witness ==
    /\ rb_call.op = "pop" /\ rb_call.ret
    /\ rb_call.pre.head = 0
    /\ Len(popped) = BUFFER_MAX_SIZE + 1
    /\ \E i, j \in 1..Len(popped) : popped[i] # popped[j]

\* C2 (ringBufferPush contract): the call returns false exactly when size
\* equals BUFFER_MAX_SIZE at the call, and then buffer, head, tail and size
\* are unchanged; otherwise it returns true, the word is stored at the old
\* tail, tail advances by one modulo BUFFER_MAX_SIZE and size grows by one.
C2_PushContract ==
    rb_call.op = "push" =>
        LET pre == rb_call.pre IN
        /\ (rb_call.ret = FALSE) <=> (pre.size = BUFFER_MAX_SIZE)
        /\ ~rb_call.ret => rb = pre
        /\ rb_call.ret =>
              /\ rb.buffer = [pre.buffer EXCEPT ![pre.tail] = rb_call.arg]
              /\ rb.tail = (pre.tail + 1) % BUFFER_MAX_SIZE
              /\ rb.size = pre.size + 1
              /\ rb.head = pre.head

\* C2 witness: a push refused by a full buffer whose indices have wrapped.
C2_Witness ==
    /\ rb_call.op = "push" /\ ~rb_call.ret
    /\ rb_call.pre.size = BUFFER_MAX_SIZE
    /\ rb_call.pre.head # 0

\* C3 (ringBufferPop contract): the call returns false exactly when size is
\* 0 at the call, and then buffer, head, tail, size and the caller's output
\* variable are unchanged; otherwise it returns true, yields the word at the
\* old head, advances head by one modulo BUFFER_MAX_SIZE and shrinks size
\* by one.
C3_PopContract ==
    rb_call.op = "pop" =>
        LET pre == rb_call.pre IN
        /\ (rb_call.ret = FALSE) <=> (pre.size = 0)
        /\ ~rb_call.ret => (rb = pre /\ out_value = rb_call.out_pre)
        /\ rb_call.ret =>
              /\ out_value = pre.buffer[pre.head]
              /\ rb.head = (pre.head + 1) % BUFFER_MAX_SIZE
              /\ rb.size = pre.size - 1
              /\ rb.tail = pre.tail
              /\ rb.buffer = pre.buffer

\* C3 witness: a pop refused by an empty buffer that was used before, the
\* caller's variable holding a word other than the one in the head slot.
C3_Witness ==
    /\ rb_call.op = "pop" /\ ~rb_call.ret
    /\ Len(popped) > 0
    /\ out_value # rb.buffer[rb.head]

(***************************************************************************)
(* Properties of SpecPack.                                                 *)
(***************************************************************************)
Min(a, b) == IF a < b THEN a ELSE b

\* Both directions are configured, and with the same values.
SameConfig == cfg_set["TX"] # NoConfig /\ cfg_set["TX"] = cfg_set["RX"]

\* Words to try the XOR identity on, beside the ones the program sent.
ProbeWords == { ZERO32, <<65535, 65535>>, <<1, 32768>> }

\* C5 (round trip): with TX and RX configured with the same values, the i-th
\* key drawn by each side since its configuration undoes the other:
\* (word XOR ks_tx_i) XOR ks_rx_i = word for every word tried, and whenever
\* the i-th word the receiver decrypted is the i-th word the sender
\* encrypted, the receiver got back the sender's plaintext group.
C5_RoundTrip ==
    SameConfig =>
        \A i \in 1..Min(Len(ks_log["TX"]), Len(ks_log["RX"])) :
            /\ \A w \in ProbeWords \cup {enc_log[i].group} :
                   Xor32(Xor32(w, ks_log["TX"][i]), ks_log["RX"][i]) = w
            /\ (i <= Len(dec_log) /\ dec_log[i].cipher = enc_log[i].value)
                   => dec_log[i].plain = enc_log[i].group

\* Three words went through encryption and decryption in lockstep, the third
\* of them changed by its key.
C5_Witness ==
    /\ SameConfig
    /\ Len(dec_log) >= 3
    /\ \A i \in 1..3 : dec_log[i].cipher = enc_log[i].value
    /\ enc_log[3].value # enc_log[3].group
    /\ dec_log[3].plain = enc_log[3].group

\* C6 (keystream determinism): two contexts configured with the same map
\* type, seeds and iteration counts, whatever each of them held before,
\* return the same key on every successive call, and after the same number
\* of calls they are in the same state.
C6_KeystreamDeterminism ==
    SameConfig =>
        /\ \A i \in 1..Min(Len(ks_log["TX"]), Len(ks_log["RX"])) :
               ks_log["TX"][i] = ks_log["RX"][i]
        /\ Len(ks_log["TX"]) = Len(ks_log["RX"])
               => TX_encryption_vars = RX_encryption_vars

\* Three set_encryption commands were issued, so one context was configured
\* over an earlier configuration, and each side has since drawn three keys,
\* not all alike.
C6_Witness ==
    /\ SameConfig
    /\ n_cmds.set = 3
    /\ Len(ks_log["TX"]) >= 3
    /\ Len(ks_log["RX"]) >= 3
    /\ ks_log["RX"][1] # ks_log["RX"][2]

RECURSIVE Flatten(_)
\* The bytes of a sequence of strings, in order.
Flatten(strings) ==
    IF strings = <<>> THEN <<>> ELSE Head(strings) \o Flatten(Tail(strings))

\* C7 (byte packing round trip): while the two directions are in step and
\* every string handed to add_str_to_buffer has a length that is a multiple
\* of 4, the bytes the drains have put out are the leading bytes of those
\* strings, byte for byte in order, and all of them once both ring buffers
\* are empty again.
C7_PackingRoundTrip ==
    (in_step /\ \A i \in 1..Len(sent) : Len(sent[i]) % 4 = 0) =>
        LET bytes == Flatten(sent) IN
        /\ Len(rcvd) <= Len(bytes)
        /\ rcvd = SubSeq(bytes, 1, Len(rcvd))
        /\ (ringBufferIsEmpty(ring_buffer_TX) /\ ringBufferIsEmpty(ring_buffer_RX))
               => rcvd = bytes

\* The 12 bytes of "Hello World!" have come out of the drain.
C7_Witness ==
    /\ in_step
    /\ sent = << <<72, 101, 108, 108, 111, 32, 87, 111, 114, 108, 100, 33>> >>
    /\ rcvd = <<72, 101, 108, 108, 111, 32, 87, 111, 114, 108, 100, 33>>
    /\ ringBufferIsEmpty(ring_buffer_TX)
    /\ ringBufferIsEmpty(ring_buffer_RX)

RECURSIVE Draw(_, _)
\* n successive calls of key_generator on a context: the context after them
\* and the keys returned, in order.
Draw(ev, n) ==
    IF n = 0 THEN [ev |-> ev, keys |-> <<>>]
    ELSE Eval({ Eval({ [ev |-> k.vars, keys |-> Append(d.keys, k.ret)]
                       : k \in {key_generator(d.ev)} })
                : d \in {Draw(ev, n - 1)} })

\* ceil(n / 4)
Groups(n) == (n + 3) \div 4

\* Byte j (from 0) of a string, 0 beyond its end.
ByteOrZero(str, j) == IF j < Len(str) THEN str[j + 1] ELSE 0

\* The word holds bytes 4k .. 4k+3 of the string little-endian: byte 4k+j in
\* bits 8j .. 8j+7, zero for the bytes the string does not have (k from 0).
IsGroup(word, str, k) ==
    \A j \in 0..3, t \in 0..7 :
        Bit32(word, 8 * j + t) = ByteBit(ByteOrZero(str, 4 * k + j), t)

\* The buffer a pass of the last add_str_to_buffer call found (k from 1).
BufferBefore(k) == IF k = 1 THEN last_add.pre_rb ELSE last_add.trace[k - 1].rb

\* C8 (word production): a call of add_str_to_buffer with n bytes makes
\* ceil(n/4) passes; pass k forms group k of the input, packed little-endian
\* and zero-padded, XORs it bit for bit with the k-th key the context yields
\* from its state at the call, and pushes that value once; the context is
\* left as those ceil(n/4) draws leave it, and an empty input changes
\* neither the context nor the buffer.
C8_WordProduction ==
    last_add.done =>
        \E d \in {Draw(last_add.pre_ev, Groups(Len(last_add.input)))} :
            /\ Len(last_add.trace) = Groups(Len(last_add.input))
            /\ last_add.post_ev = d.ev
            /\ \A k \in 1..Len(last_add.trace) :
                   LET pass == last_add.trace[k] IN
                   /\ IsGroup(pass.group, last_add.input, k - 1)
                   /\ pass.ks = d.keys[k]
                   /\ \A t \in 0..31 :
                          Bit32(pass.value, t)
                              = (Bit32(pass.group, t) + Bit32(pass.ks, t)) % 2
                   /\ \E p \in {ringBufferPush(BufferBefore(k), pass.value)} :
                          pass.rb = p.rb /\ pass.ret = p.ret
            /\ last_add.post_rb = BufferBefore(Len(last_add.trace) + 1)
            /\ Len(last_add.input) = 0
                   => (last_add.post_ev = last_add.pre_ev
                       /\ last_add.post_rb = last_add.pre_rb)

\* A call with five bytes, two of them with the top bit set, made its two
\* passes and both values were stored.
C8_Witness ==
    /\ last_add.done
    /\ last_add.input = <<200, 255, 128, 1, 65>>
    /\ Len(last_add.trace) = 2
    /\ last_add.trace[1].ret
    /\ last_add.trace[2].ret
    /\ last_add.trace[2].group = <<65, 0>>

\* C9 (TX overflow): a pass of add_str_to_buffer that finds the TX ring
\* buffer full has its push refused and leaves the buffer as it was; the
\* call still makes one pass for every group of the input, each group
\* once, the values accepted before and after stay stored in order, and
\* the command returns 0 as if nothing had been lost.
C9_TxOverflow ==
    last_add.done =>
        /\ Len(last_add.trace) = Groups(Len(last_add.input))
        /\ last_add.ret = 0
        /\ \A k \in 1..Len(last_add.trace) :
               LET pass == last_add.trace[k] IN
               /\ IsGroup(pass.group, last_add.input, k - 1)
               /\ pass.ret = ~ringBufferIsFull(BufferBefore(k))
               /\ ~pass.ret => pass.rb = BufferBefore(k)
               /\ pass.ret => RBContents(pass.rb)
                                  = Append(RBContents(BufferBefore(k)), pass.value)
        /\ last_add.post_rb = BufferBefore(Len(last_add.trace) + 1)

\* A call whose first word was stored and whose second was refused went on
\* to a third pass.
C9_Witness ==
    /\ last_add.done
    /\ Len(last_add.trace) = 3
    /\ last_add.trace[1].ret
    /\ ~last_add.trace[2].ret
    /\ ~last_add.trace[3].ret
    /\ last_add.ret = 0


(***************************************************************************)
(* Properties of Spec.                                                     *)
(***************************************************************************)
\* A frame has begun and its last alarm has passed.
FrameDone == frame.over /\ frame.samples # <<>>

\* The bits sampled so far are the low bits of w, least significant first.
SamplesOf(w) ==
    \A i \in 1..Len(frame.samples) : frame.samples[i] = Bit32(w, i - 1)

C4_FramingSafety ==
    /\ frame.taken = (IF frame = NoFrame THEN 0 ELSE 1)
    /\ frame.falls >= frame.taken
    /\ Len(frame.samples) <= 32 /\ SamplesOf(frame.word)
    /\ Len(frame.pushed) <= 1
    /\ frame.pushed # <<>> =>
          /\ Len(frame.samples) = 32
          /\ frame.pushed[1].value = frame.word
    /\ frame.over /\ frame # NoFrame =>
          /\ Len(frame.pushed) = 1
          /\ pin = 1
          /\ rx.isr_handler /\ ~rx.timer_RX /\ ~tx.timer_TX

Decrypted(ws, ev) ==
    Eval({ [ev |-> k.ev,
            bytes |-> Flatten([i \in 1..Len(ws) |->
                                  splitUint32ToChars(Xor32(ws[i], k.keys[i]))])]
           : k \in {Draw(ev, Len(ws))} })

\* C10 (word consumption): when a drain returns, its last pop having
\* failed, the words it popped begin with the words the RX ring buffer held
\* when it started, in order; it has drawn one key per popped word, and its
\* output holds the four bytes of every popped word XOR its key, least
\* significant byte first, in pop order.
C10_WordConsumption ==
    rx_task.pc = "clear" =>
        /\ drain.done
        /\ Len(drain.start) <= Len(drain.popped)
        /\ \A i \in 1..Len(drain.start) : drain.popped[i] = drain.start[i]
        /\ \E x \in {Decrypted(drain.popped, drain.ev)} :
              /\ RX_encryption_vars = x.ev
              /\ rx_task.d.output_str = x.bytes

(***************************************************************************)
(* Properties of SpecCfg.                                                  *)
(***************************************************************************)
\* C11 (configure before arm): the falling-edge handler is installed only
\* when key_generator_setup has run to its end on the RX context, with the
\* MSWS state allocated, and key_generator is never called on a context
\* that lacks the iterator or the MSWS state.
C11_ConfigureBeforeArm ==
    /\ rx.isr_handler => Ready(RX_encryption_vars)
    /\ console.pc # "panic"

(***************************************************************************)
(* Properties of SpecNum.  The reference arithmetic works on the sixteen   *)
(* hexadecimal digits of a uint64_t, least significant first.              *)
(***************************************************************************)
Nibbles(v) == [i \in 0..15 |-> (v[(i \div 2) + 1] \div (IF i % 2 = 0 THEN 1 ELSE 16)) % 16]

FromNibbles(n) == [i \in 1..8 |-> n[2 * (i - 1)] + 16 * n[2 * (i - 1) + 1]]

RECURSIVE CarryInto(_, _)
\* The carry into digit k of the column sums col.
CarryInto(col, k) ==
    IF k = 0 THEN 0 ELSE (col[k - 1] + CarryInto(col, k - 1)) \div 16

\* The low sixteen digits of the number with column sums col.
Digits(col) == [k \in 0..15 |-> (col[k] + CarryInto(col, k)) % 16]

RefAdd64(a, b) ==
    Eval({ FromNibbles(Digits(col))
           : col \in {[k \in 0..15 |-> Nibbles(a)[k] + Nibbles(b)[k]]} })

RECURSIVE DigitProducts(_, _, _, _)
\* sum over i in 0..j of na[i] * nb[k - i]
DigitProducts(na, nb, k, j) ==
    IF j < 0 THEN 0 ELSE na[j] * nb[k - j] + DigitProducts(na, nb, k, j - 1)

RefMul64(a, b) ==
    Eval({ Eval({ FromNibbles(Digits(col))
                  : col \in {[k \in 0..15 |-> DigitProducts(na, nb, k, k)]} })
           : na \in {Nibbles(a)}, nb \in {Nibbles(b)} })

\* The MSWS step as the claim words it: w' = w + s, x' = the halves of
\* x * x + w' exchanged.
RefMsws(v) ==
    Eval({ Eval({ [x |-> [i \in 1..8 |-> sum[((i + 3) % 8) + 1]], w |-> w1, s |-> v.s]
                  : sum \in {RefAdd64(RefMul64(v.x, v.x), w1)} })
           : w1 \in {RefAdd64(v.w, v.s)} })

\* C12 (MSWS step): a call of msws32 leaves w + s in w, the 64-bit value
\* x * x + (w + s) with its halves exchanged in x, s as it was, and returns
\* the low 32 bits of the new x; all sums and products modulo 2^64.
C12_MswsStep ==
    msws_run.rets # <<>> =>
        \E r \in {RefMsws(msws_run.last)} :
            /\ msws_run.now = r
            /\ msws_run.rets[Len(msws_run.rets)]
                   = <<r.x[1] + 256 * r.x[2], r.x[3] + 256 * r.x[4]>>

\* A call whose square and whose Weyl sum both wrapped around, with a
\* result that is not zero.
C12_Witness ==
    /\ msws_run.rets # <<>>
    /\ msws_run.last.x = <<239, 205, 171, 137, 103, 69, 35, 1>>
    /\ msws_run.last.w = <<255, 255, 255, 255, 255, 255, 255, 255>>
    /\ msws_run.last.s = <<239, 205, 171, 137, 103, 69, 35, 1>>
    /\ msws_run.rets[Len(msws_run.rets)] # ZERO32

\* The state x = 0, w = 0, s = 1.
MswsFixture ==
    [x |-> ZERO64, w |-> ZERO64, s |-> <<1, 0, 0, 0, 0, 0, 0, 0>>]

\* A state with s = 1, w below 2^32 and x = w * 2^32: the states a run
\* from MswsFixture reaches.
OnFixtureRun(v) ==
    /\ v.s = <<1, 0, 0, 0, 0, 0, 0, 0>>
    /\ v.w[5] = 0 /\ v.w[6] = 0 /\ v.w[7] = 0 /\ v.w[8] = 0
    /\ v.x = <<0, 0, 0, 0, v.w[1], v.w[2], v.w[3], v.w[4]>>

\* The claim as written: 0 on the first call, not 0 on the calls after it.
C13_ZeroThenNonzero ==
    msws_run.pre = MswsFixture =>
        \A i \in 1..Len(msws_run.rets) :
            (msws_run.rets[i] = ZERO32) <=> (i = 1)

\* C13 (MSWS fixture): from x = 0, w = 0, s = 1 every call returns 0, the
\* first one and the ones after it.  A call on a state with s = 1,
\* w < 2^32 and x = w * 2^32 leaves w + 1 in w and (w + 1) with its halves
\* exchanged in x, and returns 0 unless w = 2^32 - 1 before the call, when
\* it returns 1: the first result that is not 0 is that of call 2^32.
C13_MswsFixture ==
    /\ msws_run.pre = MswsFixture =>
          \A i \in 1..Len(msws_run.rets) : msws_run.rets[i] = ZERO32
    /\ (msws_run.rets # <<>> /\ OnFixtureRun(msws_run.last)) =>
          \E w1 \in {RefAdd64(msws_run.last.w, <<1, 0, 0, 0, 0, 0, 0, 0>>)} :
              /\ msws_run.now.w = w1
              /\ msws_run.now.x = [i \in 1..8 |-> w1[((i + 3) % 8) + 1]]
              /\ msws_run.rets[Len(msws_run.rets)]
                     = (IF w1[5] = 1 THEN <<1, 0>> ELSE ZERO32)

\* Three calls from the fixture, the second of which returned 0.
C13_Witness ==
    /\ msws_run.pre = MswsFixture
    /\ Len(msws_run.rets) = MaxMswsCalls
    /\ msws_run.rets[2] = ZERO32

\* A run that starts 2^32 - 2 calls after the fixture and has returned 1.
C13_FirstNonzero ==
    /\ OnFixtureRun(msws_run.pre)
    /\ OnFixtureRun(msws_run.last)
    /\ msws_run.rets = <<ZERO32, <<1, 0>>>>

\* C14 (Duffing single step): one duffing_map_iteration leaves the old y
\* in x and -0.2 * x + 2.75 * y - y^3 in y, both computed from the x and y
\* before the step; from x = 0.1, y = 1.1 that is x = 1.1, y = 1.674.
C14_DuffingStep ==
    (map_run.done /\ map_run.it = "duffing_map_iteration") =>
        LET x == map_run.pre.x
            y == map_run.pre.y
        IN  /\ map_run.post.x = y
            /\ map_run.post.y
                   = FMul(y, DUFFING_ALPHA) - FMul(x, DUFFING_BETA)
                     - FMul(y, FMul(y, y))
            /\ map_run.post.iterations = map_run.pre.iterations
            /\ (x = Dbl(1, 10) /\ y = Dbl(11, 10)) =>
                   /\ map_run.post.x = Dbl(11, 10)
                   /\ map_run.post.y = Dbl(1674, 1000)

\* The step from x = 0.1, y = 1.1 has been taken.
C14_Witness ==
    /\ map_run.done
    /\ map_run.it = "duffing_map_iteration"
    /\ map_run.pre.x = Dbl(1, 10)
    /\ map_run.pre.y = Dbl(11, 10)
    /\ map_run.post.y = Dbl(1674, 1000)

(***************************************************************************)
(* Further properties of SpecCfg.                                          *)
(***************************************************************************)
\* The coordinate domain of a map type, as <<lowest, highest>>.
DomainOf(map_type) ==
    CASE map_type = "MAP_DUFFING" -> <<Dbl(-12, 10), Dbl(12, 10)>>
      [] map_type = "MAP_LOGISTIC" -> <<0, Dbl(1, 1)>>
      [] map_type = "MAP_2D_LOGISTIC" -> <<Dbl(-1, 1), Dbl(1, 1)>>

\* v is a number of the domain of map_type.
InDomain(v, map_type) ==
    /\ map_type \in MapTypes
    /\ ~IsNaN(v)
    /\ DomainOf(map_type)[1] <= v
    /\ v <= DomainOf(map_type)[2]

Clamped(n) ==
    IF n < min_iterations THEN min_iterations
    ELSE IF n > max_iterations THEN max_iterations ELSE n

\* What the last set_encryption command did, for coordinates that satisfy
\* ok: key_generator_setup was called only with seeds in the domain and
\* clamped iteration counts, and a coordinate outside the domain made the
\* command return 1 without the call.
ValidatedWhere(ok(_)) ==
    (cfg_hist.given /\ console.pc = "idle"
        /\ ok(cfg_hist.a.x1) /\ ok(cfg_hist.a.y1)
        /\ ok(cfg_hist.a.x2) /\ ok(cfg_hist.a.y2)) =>
        LET t == cfg_hist.type
            a == cfg_hist.a
            all_in == /\ InDomain(a.x1, t) /\ InDomain(a.y1, t)
                      /\ InDomain(a.x2, t) /\ InDomain(a.y2, t)
        IN  /\ cfg_hist.called =>
                  /\ InDomain(cfg_hist.ev.chaotic_map1.x, t)
                  /\ InDomain(cfg_hist.ev.chaotic_map1.y, t)
                  /\ InDomain(cfg_hist.ev.chaotic_map2.x, t)
                  /\ InDomain(cfg_hist.ev.chaotic_map2.y, t)
                  /\ cfg_hist.ev.chaotic_map1.iterations = Clamped(a.iterations1)
                  /\ cfg_hist.ev.chaotic_map2.iterations = Clamped(a.iterations2)
                  /\ cfg_hist.ev.chaotic_map1.iterations \in min_iterations..max_iterations
                  /\ cfg_hist.ev.chaotic_map2.iterations \in min_iterations..max_iterations
            /\ ~all_in => (cfg_hist.ret = 1 /\ ~cfg_hist.called)

AnyDouble(v) == TRUE

IsNumber(v) == ~IsNaN(v)

\* C15 (boundary validation): every call of key_generator_setup made by
\* cmd_set_encryption passes four seed coordinates of the domain of the map
\* type and iteration counts in [min_iterations, max_iterations], the counts
\* being the given ones clamped; a coordinate outside the domain makes the
\* command return 1 without the call.
C15_BoundaryValidation == ValidatedWhere(AnyDouble)

\* The same for commands whose four coordinates are numbers.
C15_NumbersValidated == ValidatedWhere(IsNumber)

\* A command with clamped iteration counts has called key_generator_setup,
\* and a command with a coordinate outside the domain has returned 1.
C15_Clamped ==
    /\ cfg_hist.called
    /\ cfg_hist.a.iterations1 < min_iterations
    /\ cfg_hist.a.iterations2 > max_iterations
    /\ cfg_hist.ev.chaotic_map1.iterations = min_iterations

C15_Rejected ==
    /\ cfg_hist.given
    /\ cfg_hist.ret = 1
    /\ ~IsNaN(cfg_hist.a.x1)
    /\ ~InDomain(cfg_hist.a.x1, cfg_hist.type)

(***************************************************************************)
(* Further properties of Spec and FairSpec.                                *)
(***************************************************************************)
\* While a timer runs its alarms so far are counted by its bit counter, and
\* a frame that is over took 34 alarms of the TX timer and 33 of the RX
\* timer.
C16_Counting ==
    /\ tx.timer_TX =>
          /\ tx.in_transmission
          /\ frame.alarms.TX = tx.bit_counter_TX
          /\ frame.alarms.TX < 34
    /\ rx.timer_RX =>
          /\ ~rx.isr_handler
          /\ frame.alarms.RX = rx.bit_counter_RX
          /\ frame.alarms.RX < 33
    /\ (frame.over /\ frame # NoFrame) =>
          /\ frame.alarms.TX = 34
          /\ frame.alarms.RX = 33

\* A step that stops the TX timer or clears in_transmission while the timer
\* runs is the 34th alarm of the frame and does both; a step that stops
\* the RX timer or installs the edge handler while the timer runs is the
\* 33rd alarm and does both.
C16_NoEarlyStop ==
    /\ (tx.timer_TX /\ (~tx'.timer_TX \/ ~tx'.in_transmission)) =>
          /\ frame'.alarms.TX = 34
          /\ ~tx'.timer_TX /\ ~tx'.in_transmission
    /\ (rx.timer_RX /\ (~rx'.timer_RX \/ rx'.isr_handler)) =>
          /\ frame'.alarms.RX = 33
          /\ ~rx'.timer_RX /\ rx'.isr_handler

\* C16 (no abort): with the timers firing, once start_transmission has
\* started the TX timer in_transmission becomes false, after exactly 34
\* alarms, and once the falling edge has started the RX timer the edge
\* handler is installed again, after exactly 33 alarms; no step stops
\* either timer before.
C16_NoAbort ==
    /\ []C16_Counting
    /\ [][C16_NoEarlyStop]_vars
    /\ tx.timer_TX ~> (~tx.in_transmission /\ ~tx.timer_TX /\ frame.alarms.TX = 34)
    /\ rx.timer_RX ~> (rx.isr_handler /\ ~rx.timer_RX /\ frame.alarms.RX = 33)

\* A frame has run to its end.
C16_Witness ==
    /\ frame.over
    /\ frame.alarms.TX = 34
    /\ frame.alarms.RX = 33
    /\ ~tx.in_transmission
    /\ rx.isr_handler

\* By how much size of ring_buffer_RX is above the number of slots between
\* head and tail, modulo BUFFER_MAX_SIZE; between the two steps of a pop
\* head is already one further.
Skew ==
    (ring_buffer_RX.size - (ring_buffer_RX.tail - ring_buffer_RX.head)
       - (IF rx_task.pc = "store" THEN 1 ELSE 0)) % BUFFER_MAX_SIZE

\* C17 (count race): the only step that changes the difference between size
\* and the number of stored words of ring_buffer_RX is the store of size--
\* in a ringBufferPop of the RX task after timer_RX_ISR has pushed since the
\* load: the store writes the loaded size - 1 over the size + 1 of the push
\* and one count is lost for each such push.
C17_CountRace ==
    [][Skew' # Skew =>
          /\ rx_task.pc = "store"
          /\ rx_task'.pc = "pop"
          /\ ring_buffer_RX.size > rx_task.size
          /\ ring_buffer_RX'.size = rx_task.size - 1
          /\ Skew' = (Skew - (ring_buffer_RX.size - rx_task.size)) % BUFFER_MAX_SIZE]_vars

\* The RX task is between polls and size of ring_buffer_RX is not the
\* number of stored words.
C17_Witness ==
    /\ rx_task.pc = "loop"
    /\ (ring_buffer_RX.tail - ring_buffer_RX.head) % BUFFER_MAX_SIZE
          # ring_buffer_RX.size % BUFFER_MAX_SIZE

(***************************************************************************)
(* Further properties of SpecRB.                                           *)
(***************************************************************************)
\* C18 (ring buffer invariant): after createRingBuffer and any sequence of
\* whole calls of ringBufferPush and ringBufferPop, size is in
\* 0..BUFFER_MAX_SIZE, head and tail are in 0..BUFFER_MAX_SIZE - 1,
\* (tail - head) mod BUFFER_MAX_SIZE is size mod BUFFER_MAX_SIZE, and size is
\* BUFFER_MAX_SIZE exactly when the buffer is full, head and tail then
\* being equal.
C18_RingBufferInvariant ==
    /\ rb.size \in 0..BUFFER_MAX_SIZE
    /\ rb.head \in 0..(BUFFER_MAX_SIZE - 1)
    /\ rb.tail \in 0..(BUFFER_MAX_SIZE - 1)
    /\ (rb.tail - rb.head) % BUFFER_MAX_SIZE = rb.size % BUFFER_MAX_SIZE
    /\ (rb.size = BUFFER_MAX_SIZE) <=> (ringBufferIsFull(rb) /\ rb.head = rb.tail)
    /\ (rb.head = rb.tail) <=> (ringBufferIsEmpty(rb) \/ ringBufferIsFull(rb))

\* A full buffer whose head and tail have met away from slot 0, after
\* pushes and pops.
C18_Witness ==
    /\ rb.size = BUFFER_MAX_SIZE
    /\ rb.head = rb.tail
    /\ rb.head # 0
    /\ popped # <<>>

(***************************************************************************)
(* More properties of Spec.                                                *)
(***************************************************************************)
\* C19 (no stranded word): whenever the RX task is between two polls of
\* check_RX and ring_buffer_RX holds a word, reception_complete is true, so
\* that the next poll pops and decrypts the word without any further word
\* arriving.
C19_NoStrandedWord ==
    (rx_task.pc = "loop" /\ ~ringBufferIsEmpty(ring_buffer_RX)) =>
        rx.reception_complete

\* The same with no frame under way and none to come: the word stays where
\* it is.
C19_Stranded ==
    /\ rx_task.pc = "loop"
    /\ ~rx.reception_complete
    /\ ring_buffer_RX.size = 1
    /\ ring_buffer_RX.tail = (ring_buffer_RX.head + 1) % BUFFER_MAX_SIZE
    /\ ringBufferIsEmpty(ring_buffer_TX)
    /\ ~tx.in_transmission /\ ~rx.timer_RX
    /\ n_cmds.add = MaxAdds

(***************************************************************************)
(* Further properties of SpecPack.                                         *)
(***************************************************************************)
\* Both directions were configured alike with nothing in flight, and a
\* transmit command has followed (sent is only written to from then on).
SeededAlike == SameConfig /\ sent # <<>>

\* C20 (keystream alignment): with both contexts seeded alike, the k-th word
\* the RX task decrypts is the k-th word add_str_to_buffer encrypted, so
\* that the k-th key of the RX context meets the k-th key of the TX context
\* and the word decrypts to its plaintext group, also after a push was
\* refused by a full TX or RX ring buffer.
C20_KeystreamAlignment ==
    SeededAlike =>
        \A k \in 1..Len(dec_log) :
            /\ k <= Len(enc_log)
            /\ dec_log[k].cipher = enc_log[k].value
            /\ dec_log[k].plain = enc_log[k].group

\* The same as long as no push has been refused.
C20_AlignedInStep ==
    (SeededAlike /\ in_step) =>
        \A k \in 1..Len(dec_log) :
            /\ k <= Len(enc_log)
            /\ dec_log[k].cipher = enc_log[k].value
            /\ dec_log[k].plain = enc_log[k].group

\* After a refused push a word has come out of the drain that is not the
\* plaintext of the word sent.
C20_OutOfStep ==
    /\ SeededAlike
    /\ ~in_step
    /\ \E k \in 1..Len(dec_log) :
          /\ \E j \in (k + 1)..Len(enc_log) : dec_log[k].cipher = enc_log[j].value
          /\ dec_log[k].cipher # enc_log[k].value
          /\ \A j \in 1..Len(enc_log) : dec_log[k].plain # enc_log[j].group

\* Three words went through in step, the push of the fourth was refused by
\* the full RX ring buffer, and the fifth was decrypted with the fourth key
\* of the RX context.
C20_AfterRefusedPush ==
    /\ SeededAlike
    /\ Len(enc_log) = 5
    /\ Len(dec_log) = 4
    /\ \A k \in 1..3 : /\ dec_log[k].cipher = enc_log[k].value
                       /\ dec_log[k].plain = enc_log[k].group
    /\ dec_log[4].cipher = enc_log[5].value
    /\ dec_log[4].plain # enc_log[5].group
    /\ last_add.done /\ \A i \in 1..Len(last_add.trace) : last_add.trace[i].ret

(***************************************************************************)
(* The framers, step by step (Spec).                                       *)
(***************************************************************************)
\* What alarm k of the TX timer in a frame does, k being the number of
\* alarms of the frame after the step.
TXTick(k) ==
    /\ tx'.value_TX = frame.word
    /\ k \in 1..32 =>
          /\ pin' = Bit32(frame.word, k - 1)
          /\ tx'.bit_counter_TX = k
          /\ tx'.timer_TX /\ tx'.in_transmission
    /\ k = 33 =>
          /\ pin' = 1
          /\ tx'.bit_counter_TX = 33
          /\ tx'.timer_TX /\ tx'.in_transmission
    /\ k = 34 =>
          /\ pin' = pin
          /\ tx'.bit_counter_TX = 0
          /\ ~tx'.timer_TX /\ ~tx'.in_transmission
    /\ k \in 1..34

\* C21 (TX tick sequence): from start_transmission to the first alarm the
\* line is low; alarm k, for k in 1..32, drives the line to bit k - 1 of
\* value_TX and leaves k in bit_counter_TX; alarm 33 drives the line high
\* and leaves 33; alarm 34 stops the timer, clears in_transmission and
\* sets bit_counter_TX to 0 and does not drive the line.
C21_TXTickSequence ==
    /\ []((tx.timer_TX /\ frame.alarms.TX = 0) =>
             (pin = 0 /\ tx.bit_counter_TX = 0 /\ tx.value_TX = frame.word))
    /\ [][(frame'.alarms.TX = frame.alarms.TX + 1) => TXTick(frame'.alarms.TX)]_vars
    /\ [][(tx.timer_TX /\ tx' # tx) => frame'.alarms.TX = frame.alarms.TX + 1]_vars

\* Alarm 33 has raised the line after a last data bit of 0, in a frame of
\* a word with a 1 among its data bits.
C21_Witness ==
    /\ tx.timer_TX
    /\ frame.alarms.TX = 33
    /\ tx.bit_counter_TX = 33
    /\ pin = 1
    /\ Bit32(frame.word, 31) = 0
    /\ frame.word # ZERO32

\* What the steps of the TX task do to in_transmission and ring_buffer_TX:
\* in_transmission is set only over a buffer that holds a word, by the
\* step into the delay; a word leaves ring_buffer_TX only by the pop of
\* start_transmission after the delay, which finds a word, takes the one
\* at head into value_TX and takes no other.
TXArmStep ==
    /\ (~tx.in_transmission /\ tx'.in_transmission) =>
          /\ ~ringBufferIsEmpty(ring_buffer_TX)
          /\ tx_task.pc = "loop" /\ tx_task'.pc = "delay"
          /\ ring_buffer_TX' = ring_buffer_TX
    /\ (tx_task.pc = "delay" /\ tx_task'.pc # "delay") =>
          /\ tx.in_transmission
          /\ ~ringBufferIsEmpty(ring_buffer_TX)
          /\ tx'.value_TX = ring_buffer_TX.buffer[ring_buffer_TX.head]
          /\ ring_buffer_TX'.size = ring_buffer_TX.size - 1
          /\ ring_buffer_TX'.head = (ring_buffer_TX.head + 1) % BUFFER_MAX_SIZE
          /\ tx'.timer_TX /\ pin' = 0
    /\ (ring_buffer_TX'.size < ring_buffer_TX.size
            \/ ring_buffer_TX'.head # ring_buffer_TX.head) =>
          (tx_task.pc = "delay" /\ tx_task'.pc = "loop")

\* C22 (TX arm gating): check_TX starts a transmission only over a TX ring
\* buffer that holds a word and with in_transmission false, in_transmission
\* is set before the pop, the pop of start_transmission after the delay
\* always finds a word, no other step having taken one since the test, and
\* each start pops exactly one word.
C22_TXArmGating ==
    /\ [](tx_task.pc = "delay" =>
             (tx.in_transmission /\ ~tx.timer_TX
                /\ ~ringBufferIsEmpty(ring_buffer_TX)))
    /\ [][TXArmStep]_vars

\* start_transmission has popped one word of a full buffer, after the last
\* transmit command.
C22_Witness ==
    /\ tx.timer_TX
    /\ frame.alarms.TX = 0
    /\ ring_buffer_TX.size = BUFFER_MAX_SIZE - 1
    /\ ring_buffer_TX.head # 0
    /\ n_cmds.add = MaxAdds

\* C23 (TX idle invariant): whenever in_transmission is false the TX timer
\* is stopped, bit_counter_TX is 0 and the line is high; so the step that
\* starts the timer finds bit_counter_TX at 0 and makes the line fall, and
\* that fall is the start bit.
C23_TXIdle ==
    /\ [](~tx.in_transmission =>
             (~tx.timer_TX /\ tx.bit_counter_TX = 0 /\ pin = 1))
    /\ [][(~tx.timer_TX /\ tx'.timer_TX) =>
             /\ tx.bit_counter_TX = 0 /\ tx'.bit_counter_TX = 0
             /\ pin = 1 /\ pin' = 0
             /\ frame'.falls = 1]_vars

\* The TX framer is idle after a frame, with the next word waiting.
C23_Witness ==
    /\ ~tx.in_transmission
    /\ frame.alarms.TX = 34
    /\ tx.bit_counter_TX = 0
    /\ pin = 1
    /\ ~ringBufferIsEmpty(ring_buffer_TX)
    /\ tx_task.pc = "loop"

\* C24 (RX start transition and exclusion): a falling edge taken while the
\* edge handler is installed sets value_RX and bit_counter_RX to 0, starts
\* the RX timer and removes the handler; in every state exactly one of
\* "the handler is installed" and "the RX timer runs" holds, and a fall of
\* the line while the timer runs changes nothing at the receiver.
C24_RXStart ==
    /\ [](rx.isr_handler # rx.timer_RX)
    /\ [][(rx.isr_handler /\ pin = 1 /\ pin' = 0) =>
             /\ rx'.value_RX = ZERO32
             /\ rx'.bit_counter_RX = 0
             /\ rx'.timer_RX
             /\ ~rx'.isr_handler
             /\ rx'.reception_complete = rx.reception_complete]_vars
    /\ [][(rx.isr_handler /\ ~rx'.isr_handler) => (pin = 1 /\ pin' = 0)]_vars
    /\ [][(rx.timer_RX /\ pin = 1 /\ pin' = 0) => rx' = rx]_vars

\* The line has fallen inside a word, after bits that were sampled as 1,
\* and the reception goes on.
C24_Witness ==
    /\ rx.timer_RX
    /\ ~rx.isr_handler
    /\ frame.falls > 1
    /\ frame.taken = 1
    /\ rx.value_RX # ZERO32
    /\ rx.bit_counter_RX > 1

\* What alarm k of the RX timer in a frame does, k being the number of
\* alarms of the frame after the step; the sample is the level of the line
\* at the alarm.
RXTick(k) ==
    /\ k \in 1..33
    /\ k \in 1..32 =>
          /\ \A i \in 0..31 :
                Bit32(rx'.value_RX, i)
                    = (IF i = k - 1 /\ pin = 1 THEN 1 ELSE Bit32(rx.value_RX, i))
          /\ rx'.bit_counter_RX = k
          /\ rx'.timer_RX /\ ~rx'.isr_handler
          /\ rx'.reception_complete = rx.reception_complete
          /\ ring_buffer_RX.buffer = ring_buffer_RX'.buffer
          /\ ring_buffer_RX.tail = ring_buffer_RX'.tail
          /\ frame'.samples = Append(frame.samples, pin)
          /\ frame'.pushed = <<>>
    /\ k = 33 =>
          /\ rx'.value_RX = rx.value_RX
          /\ rx'.bit_counter_RX = 32
          /\ ~rx'.timer_RX /\ rx'.isr_handler /\ rx'.reception_complete
          /\ frame'.samples = frame.samples
          /\ Len(frame'.pushed) = 1
          /\ frame'.pushed[1].value = rx.value_RX
          /\ frame'.pushed[1].ret =>
                ring_buffer_RX'.buffer[ring_buffer_RX.tail] = rx.value_RX

\* While a word is sampled value_RX holds the samples taken, bit i being
\* sample i, and zeroes above them; the word pushed is made of the 32
\* samples.
RXSamples ==
    /\ (rx.timer_RX /\ frame # NoFrame) =>
          \A i \in 0..31 :
              Bit32(rx.value_RX, i)
                  = (IF i < Len(frame.samples) THEN frame.samples[i + 1] ELSE 0)
    /\ frame.pushed # <<>> =>
          /\ Len(frame.samples) = 32
          /\ \A i \in 0..31 : Bit32(frame.pushed[1].value, i) = frame.samples[i + 1]

\* C25 (RX sampling): after a start edge, alarm k of the RX timer, for k in
\* 1..32, ORs the level of the line shifted left by k - 1 into value_RX and
\* increments bit_counter_RX; alarm 33 takes no sample, stops the timer,
\* installs the edge handler, pushes value_RX and sets reception_complete;
\* bit i of the pushed word is sample i for every i in 0..31.
C25_RXSampling ==
    /\ []RXSamples
    /\ [][(frame'.alarms.RX = frame.alarms.RX + 1) => RXTick(frame'.alarms.RX)]_vars
    /\ [][(rx.timer_RX /\ [rx' EXCEPT !.reception_complete = rx.reception_complete] # rx)
             => frame'.alarms.RX = frame.alarms.RX + 1]_vars

\* A word with ones and zeroes among its samples has been pushed.
C25_Witness ==
    /\ frame.pushed # <<>>
    /\ frame.pushed[1].ret
    /\ frame.alarms.RX = 33
    /\ \E i, j \in 1..32 : frame.samples[i] = 1 /\ frame.samples[j] = 0
    /\ rx.reception_complete

\* C26 (RX overflow): the alarm of the RX timer that ends a word while
\* ring_buffer_RX is full leaves the ring buffer as it is, the word being
\* dropped, and stops the timer and installs the edge handler all the same;
\* the next falling edge starts the reception of the next word.
C26_RXOverflow ==
    /\ [][(rx.timer_RX /\ rx.bit_counter_RX = 32
             /\ frame'.alarms.RX = frame.alarms.RX + 1
             /\ ringBufferIsFull(ring_buffer_RX)) =>
             /\ ring_buffer_RX' = ring_buffer_RX
             /\ frame'.pushed = <<[value |-> rx.value_RX, ret |-> FALSE]>>
             /\ ~rx'.timer_RX /\ rx'.isr_handler
             /\ rx'.reception_complete]_vars
    /\ [][(frame.pushed # <<>> /\ ~tx.timer_TX /\ tx'.timer_TX) =>
             (rx'.timer_RX /\ rx'.bit_counter_RX = 0 /\ frame'.taken = 1)]_vars

\* A word has been dropped at the full RX ring buffer: the buffer is full
\* as before, the framer waits for an edge, and the TX task is about to
\* start the next word.
C26_Witness ==
    /\ frame.pushed # <<>>
    /\ ~frame.pushed[1].ret
    /\ ringBufferIsFull(ring_buffer_RX)
    /\ rx.isr_handler /\ ~rx.timer_RX
    /\ rx.reception_complete
    /\ tx_task.pc = "delay"

(***************************************************************************)
(* Properties of the runs of key_generator in SpecNum.                     *)
(***************************************************************************)
\* key_generator has been called in this run.
KgCalled == Ready(TX_encryption_vars) /\ msws_run.rets # <<>>

\* What the last call of key_generator took from chaotic_map1 after its
\* iteration: the bits of y, XORed with the bits of x for MAP_LOGISTIC.
Contribution ==
    IF TX_encryption_vars.type = "MAP_LOGISTIC"
    THEN Xor64(doubleToUint64Bits(map_run.post.y), doubleToUint64Bits(map_run.post.x))
    ELSE doubleToUint64Bits(map_run.post.y)

\* The claim as written: w after the call is w before the call plus the
\* contribution of the map.
C27_WeylAccumulation ==
    KgCalled => msws_run.now.w = RefAdd64(msws_run.pre.w, Contribution)

\* C27 (Weyl sum): each call of key_generator stores the contribution of
\* the map (the bits of map1.y, XORed with the bits of map1.x for
\* MAP_LOGISTIC) into w, over what w held, and msws32 then adds s: w after
\* the call is the contribution plus s modulo 2^64, whatever w was before
\* the call.
C27_WeylOverwritten ==
    KgCalled =>
        /\ msws_run.last.w = Contribution
        /\ msws_run.last.x = msws_run.pre.x
        /\ msws_run.last.s = msws_run.pre.s
        /\ msws_run.now.w = RefAdd64(Contribution, msws_run.pre.s)

\* A call after the first: w was not 0 before it, and w after it is not
\* the sum of the two.
C27_Witness ==
    /\ KgCalled
    /\ Len(msws_run.rets) >= 2
    /\ msws_run.pre.w # ZERO64
    /\ Contribution # ZERO64
    /\ msws_run.now.w # RefAdd64(msws_run.pre.w, Contribution)

(***************************************************************************)
(* The seeding of the MSWS state by set_encryption (SpecCfg).              *)
(***************************************************************************)
\* chaotic_map2 of the last accepted command after its warm-up: the stored
\* seed advanced by the iterator of the type, once per clamped iteration.
WarmedMap2 ==
    IterateMap(get_chaotic_map_iterator_t(cfg_hist.type),
               [x |-> cfg_hist.a.x2, y |-> cfg_hist.a.y2,
                iterations |-> Clamped(cfg_hist.a.iterations2)],
               Clamped(cfg_hist.a.iterations2))

\* The step in which cmd_set_encryption returns after key_generator_setup.
SetupCompletes ==
    console.pc = "setup" /\ console'.pc = "idle" /\ cfg_hist'.called

\* d's context right after that step is seeded from its warmed-up map2.
SeededFromMap2(d) ==
    LET ev == IF d = "TX" THEN TX_encryption_vars' ELSE RX_encryption_vars' IN
    /\ ev.chaotic_map2 = WarmedMap2
    /\ ev.msws32_variables.x = doubleToUint64Bits(WarmedMap2.y)
    /\ ev.msws32_variables.s = doubleToUint64Bits(WarmedMap2.y)
    /\ ev.msws32_variables.w = ZERO64

\* C28 (setup seeding): when cmd_set_encryption has completed
\* key_generator_setup, x and s of the context's MSWS state both hold the
\* 64-bit pattern of chaotic_map2.y taken after the warm-up of map2 and w is
\* 0; chaotic_map2 of a context changes only where cmd_set_encryption
\* stores and warms it up, never in a step that calls key_generator
\* (transmit, the drain).
C28_SetupSeeding ==
    /\ [][SetupCompletes => SeededFromMap2(console.dir)]_vars
    /\ [][(TX_encryption_vars'.chaotic_map2 # TX_encryption_vars.chaotic_map2)
            => (console.pc = "setup" /\ console.dir = "TX")]_vars
    /\ [][(RX_encryption_vars'.chaotic_map2 # RX_encryption_vars.chaotic_map2)
            => (console.pc = "setup" /\ console.dir = "RX")]_vars

\* The TX context was set up by the last command with a seed that the
\* warm-up moved, and transmit has drawn keys from it since: w has left 0
\* and x its seed, while map2 and s are as the setup left them.
C28_Witness ==
    /\ cfg_hist.called /\ cfg_hist.dir = "TX" /\ console.pc = "idle"
    /\ Ready(TX_encryption_vars)
    /\ WarmedMap2.y # cfg_hist.a.y2
    /\ TX_encryption_vars.chaotic_map2 = WarmedMap2
    /\ TX_encryption_vars.msws32_variables.s = doubleToUint64Bits(WarmedMap2.y)
    /\ TX_encryption_vars.msws32_variables.w # ZERO64
    /\ TX_encryption_vars.msws32_variables.x # TX_encryption_vars.msws32_variables.s
    /\ ~ringBufferIsEmpty(ring_buffer_TX)

\* C29 (Weyl increment frame): a call of key_generator never changes s;
\* from its setup on, across the keystream calls, s of the context is the
\* value key_generator_setup gave it (the bits of the warmed-up
\* chaotic_map2.y), while every keystream call updates x once (one MSWS
\* step from the x before the call) and w once (one increment by s of the
\* w handed to msws32).
C29_WeylIncrementFrame ==
    /\ [](Ready(TX_encryption_vars) =>
            TX_encryption_vars.msws32_variables.s
                = doubleToUint64Bits(TX_encryption_vars.chaotic_map2.y))
    /\ [][Ready(TX_encryption_vars) =>
            /\ Len(msws_run'.rets) = Len(msws_run.rets) + 1
            /\ TX_encryption_vars'.msws32_variables.s
                   = TX_encryption_vars.msws32_variables.s
            /\ TX_encryption_vars'.msws32_variables.w
                   = RefAdd64(msws_run'.last.w, TX_encryption_vars.msws32_variables.s)
            /\ TX_encryption_vars'.msws32_variables.x
                   = RefMsws([TX_encryption_vars.msws32_variables
                                EXCEPT !.w = msws_run'.last.w]).x]_vars

\* Three keystream calls after a setup: s still is the seed, which is not
\* zero, and the last call moved x and w.
C29_Witness ==
    /\ KgCalled
    /\ Len(msws_run.rets) >= 3
    /\ msws_run.now.s # ZERO64
    /\ msws_run.now.s = doubleToUint64Bits(TX_encryption_vars.chaotic_map2.y)
    /\ msws_run.now.s = msws_run.pre.s
    /\ msws_run.now.x # msws_run.pre.x
    /\ msws_run.now.w # msws_run.pre.w

(***************************************************************************)
(* The step of the 2D logistic map (SpecNum).                              *)
(***************************************************************************)
\* A step of logistic2D_map_iteration on two numbers has been taken, alone
\* or inside key_generator.
Logistic2DStepped ==
    /\ map_run.done
    /\ map_run.it = "logistic2D_map_iteration"
    /\ ~IsNaN(map_run.pre.x) /\ ~IsNaN(map_run.pre.y)

\* r * (3 * c + 1) * v * (1 - v), multiplied from the left as the source does.
CoupledLogistic(c, v) ==
    FMul(FMul(FMul(LOGISTIC2D_R, 3 * c + SCALE), v), SCALE - v)

\* The claim as written: x' = r(3y+1)x(1-x) and y' = r(3x+1)y(1-y) with
\* r = 1.19, the x in the formula for y' being the x before the step.
C30_SimultaneousUpdate ==
    Logistic2DStepped =>
        /\ LOGISTIC2D_R = Dbl(119, 100)
        /\ map_run.post.x = CoupledLogistic(map_run.pre.y, map_run.pre.x)
        /\ map_run.post.y = CoupledLogistic(map_run.pre.x, map_run.pre.y)

\* C30 (TwoDLogistic step): one step gives x' = r(3y+1)x(1-x) and
\* y' = r(3x'+1)y(1-y) with r = 1.19, where the x in the formula for y' is
\* the freshly computed x' and the y in the formula for x' is the y before
\* the step; the iteration count is left alone.
C30_Logistic2DStep ==
    Logistic2DStepped =>
        /\ LOGISTIC2D_R = Dbl(119, 100)
        /\ map_run.post.x = CoupledLogistic(map_run.pre.y, map_run.pre.x)
        /\ map_run.post.y = CoupledLogistic(map_run.post.x, map_run.pre.y)
        /\ map_run.post.iterations = map_run.pre.iterations

\* A step from x = 0.1, y = 0.7, where the step moves x and the two readings
\* of the formula for y' give different numbers.
C30_Witness ==
    /\ Logistic2DStepped
    /\ map_run.pre.x = Dbl(1, 10)
    /\ map_run.pre.y = Dbl(7, 10)
    /\ map_run.post.x # map_run.pre.x
    /\ map_run.post.y = CoupledLogistic(map_run.post.x, map_run.pre.y)
    /\ map_run.post.y # CoupledLogistic(map_run.pre.x, map_run.pre.y)

(***************************************************************************)
(* What key_generator takes from chaotic_map1 (SpecNum).                   *)
(***************************************************************************)
\* One iteration of the map of a type on two numbers, by the recurrences:
\* Duffing x' = y, y' = -beta x + alpha y - y^3; Logistic v' = r v (1 - v)
\* on each coordinate; 2D logistic as CoupledLogistic, y' from the new x.
RefMapStep(map_type, m) ==
    CASE map_type = "MAP_DUFFING" ->
            [m EXCEPT !.x = m.y,
                      !.y = (FMul(DUFFING_ALPHA, m.y) - FMul(DUFFING_BETA, m.x))
                            - FMul(m.y, FMul(m.y, m.y))]
      [] map_type = "MAP_LOGISTIC" ->
            [m EXCEPT !.x = FMul(FMul(LOGISTIC_R, m.x), SCALE - m.x),
                      !.y = FMul(FMul(LOGISTIC_R, m.y), SCALE - m.y)]
      [] map_type = "MAP_2D_LOGISTIC" ->
            Eval({ [m EXCEPT !.x = x1, !.y = CoupledLogistic(x1, m.y)]
                   : x1 \in {CoupledLogistic(m.y, m.x)} })

\* C31 (variant-dependent contribution): a call of key_generator advances
\* chaotic_map1 by exactly one iteration of the map of the context's type
\* and leaves chaotic_map2 alone; the w the MSWS step adds s to is the bit
\* pattern of the new chaotic_map1.y, with the bit pattern of the new
\* chaotic_map1.x XORed in for MAP_LOGISTIC and for no other type.
C31_VariantContribution ==
    /\ [](KgCalled =>
            /\ map_run.post = RefMapStep(TX_encryption_vars.type, map_run.pre)
            /\ TX_encryption_vars.chaotic_map1 = map_run.post
            /\ msws_run.now = TX_encryption_vars.msws32_variables
            /\ IF TX_encryption_vars.type = "MAP_LOGISTIC"
               THEN msws_run.now.w
                        = RefAdd64(Xor64(doubleToUint64Bits(map_run.post.y),
                                         doubleToUint64Bits(map_run.post.x)),
                                   msws_run.pre.s)
               ELSE msws_run.now.w
                        = RefAdd64(doubleToUint64Bits(map_run.post.y), msws_run.pre.s))
    /\ [][Ready(TX_encryption_vars) =>
            /\ map_run'.pre = TX_encryption_vars.chaotic_map1
            /\ TX_encryption_vars'.chaotic_map2 = TX_encryption_vars.chaotic_map2]_vars

\* A call on a MAP_LOGISTIC context whose map moved to an x that is not 0:
\* the XOR made w differ from the bits of y plus s.
C31_Witness ==
    /\ KgCalled
    /\ TX_encryption_vars.type = "MAP_LOGISTIC"
    /\ map_run.post # map_run.pre
    /\ doubleToUint64Bits(map_run.post.x) # ZERO64
    /\ msws_run.now.w # RefAdd64(doubleToUint64Bits(map_run.post.y), msws_run.pre.s)

\* A call on a MAP_DUFFING context whose new x is not 0: w comes from the
\* bits of y alone.
C31_NoXorForDuffing ==
    /\ KgCalled
    /\ TX_encryption_vars.type = "MAP_DUFFING"
    /\ doubleToUint64Bits(map_run.post.x) # ZERO64
    /\ msws_run.now.w = RefAdd64(doubleToUint64Bits(map_run.post.y), msws_run.pre.s)

(***************************************************************************)
(* The writers of the two encryption contexts (SpecPack).  The console     *)
(* task runs the commands: cmd_set_encryption, and cmd_transmit with       *)
(* add_str_to_buffer; a step of it counts in n_cmds.  Every other step of  *)
(* SpecPack belongs to TX_control_task or RX_control_task.                 *)
(***************************************************************************)
\* This step is a command run by the console task.
ConsoleCommand == n_cmds' # n_cmds

\* C32 (single writer): a context is mutated only by the control task of
\* its direction, never by a step of the console task, so no two tasks
\* write the same context, a set_encryption issued after the direction is
\* running included.
C32_SingleWriter ==
    /\ [][(TX_encryption_vars' # TX_encryption_vars) => ~ConsoleCommand]_vars
    /\ [][(RX_encryption_vars' # RX_encryption_vars) => ~ConsoleCommand]_vars

\* The RX context has been written by RX_control_task (its drain decrypted
\* words) and after that by the console task: a later set_encryption for RX
\* emptied dec_log and stored a freshly seeded MSWS state.
C32_ReconfiguredAfterDrain ==
    /\ rx_task.d.output_str # <<>>
    /\ dec_log = <<>>
    /\ n_cmds.set = 3
    /\ Ready(RX_encryption_vars)
    /\ RX_encryption_vars.msws32_variables.w = ZERO64

(***************************************************************************)
(* The word of a frame (Spec).                                             *)
(***************************************************************************)
\* This step is start_transmission, at the end of the delay of check_TX.
StartStep == tx_task.pc = "delay" /\ tx_task'.pc = "loop"

tx_race_rest ==
    <<rb, out_value, rb_call, RX_encryption_vars, tx_encryption_set,
      rx_encryption_set, rx_task, packhist, linkhist, cfg_hist, msws_run, map_run>>

T_Init ==
    /\ \E c \in LinkConfigs :
          /\ TX_encryption_vars = cmd_set_encryption_store(NoEncryptionVars, c[1], c[2])
          /\ RX_encryption_vars = cmd_set_encryption_store(NoEncryptionVars, c[1], c[2])
          /\ cfg_set = [d \in Directions |-> Stored(c)]
    /\ tx_encryption_set = TRUE
    /\ rx_encryption_set = TRUE
    /\ tx = TXGlobals
    /\ rx = RXGlobals
    /\ pin = 1
    /\ tx_task = [pc |-> "loop", size |-> 0]
    /\ rx_task = [pc |-> "wait", d |-> NoDrain, value |-> ZERO32, size |-> 0]
    /\ \E g \in Garbage : ring_buffer_TX = createRingBuffer(g)
    /\ ring_buffer_RX = createRingBuffer([i \in Index |-> ZERO32])
    /\ ks_log = [d \in Directions |-> <<>>]
    /\ enc_log = <<>>
    /\ dec_log = <<>>
    /\ sent = <<>>
    /\ rcvd = <<>>
    /\ in_step = TRUE
    /\ last_add = NoAdd
    /\ n_cmds = [set |-> 2, add |-> 0]
    /\ frame = NoFrame
    /\ drain = NoDrainYet
    /\ console = [pc |-> "idle", input_str |-> <<>>, i |-> 0, size |-> 0]
    /\ cfg_hist = NoCommand
    /\ msws_run = NoMswsRun
    /\ map_run = NoMapRun
    /\ rb = createRingBuffer([i \in Index |-> ZERO32])
    /\ out_value = ZERO32
    /\ rb_call = NoCall
    /\ pushed = <<>>
    /\ popped = <<>>

\* cmd_transmit up to the loop of add_str_to_buffer.
T_Transmit ==
    \E m \in LinkMessages :
        /\ console.pc = "idle"
        /\ n_cmds.add < MaxAdds
        /\ check_encryption_settings_both
        /\ n_cmds' = [n_cmds EXCEPT !.add = @ + 1]
        /\ console' = [pc |-> "pass", input_str |-> m, i |-> 0, size |-> 0]
        /\ UNCHANGED <<tx_race_rest, pushed, popped, TX_encryption_vars, bufvars,
                       tx, rx, pin, tx_task>>

\* The console task after the push of a pass has returned: i += 4 and the
\* loop test.
AfterPass(c) ==
    IF c.i + 4 < Len(c.input_str)
    THEN [c EXCEPT !.pc = "pass", !.i = @ + 4, !.size = 0]
    ELSE [pc |-> "idle", input_str |-> <<>>, i |-> 0, size |-> 0]

\* A pass of the loop up to the load of size in rb->size++: the group, the
\* key, and of ringBufferPush the fullness test, buffer[tail] = value and
\* the new tail.  On a full buffer the push returns false.
T_PushWrite ==
    /\ console.pc = "pass"
    /\ \E pass \in {add_str_pass(console.input_str, console.i,
                                  ring_buffer_TX, TX_encryption_vars)} :
          /\ TX_encryption_vars' = pass.ev
          /\ IF ~pass.ret
             THEN /\ console' = AfterPass(console)
                  /\ UNCHANGED <<ring_buffer_TX, pushed>>
             ELSE /\ ring_buffer_TX' = [pass.rb EXCEPT !.size = ring_buffer_TX.size]
                  /\ console' = [console EXCEPT !.pc = "store",
                                                !.size = ring_buffer_TX.size]
                  /\ pushed' = Append(pushed, pass.value)
    /\ UNCHANGED <<tx_race_rest, popped, ring_buffer_RX, tx, rx, pin, tx_task, n_cmds>>

\* The store of rb->size++ and the return of the push.
T_PushStore ==
    /\ console.pc = "store"
    /\ ring_buffer_TX' = [ring_buffer_TX EXCEPT !.size = console.size + 1]
    /\ console' = AfterPass(console)
    /\ UNCHANGED <<tx_race_rest, pushed, popped, TX_encryption_vars, ring_buffer_RX,
                   tx, rx, pin, tx_task, n_cmds>>

\* check_TX finds a word and no transmission in course.
T_CheckTX ==
    /\ tx_task.pc = "loop"
    /\ ~ringBufferIsEmpty(ring_buffer_TX)
    /\ ~tx.in_transmission
    /\ tx' = [tx EXCEPT !.in_transmission = TRUE]
    /\ tx_task' = [tx_task EXCEPT !.pc = "delay"]
    /\ UNCHANGED <<tx_race_rest, pushed, popped, TX_encryption_vars, bufvars,
                   rx, pin, n_cmds, console>>

\* start_transmission after the delay, up to the load of size in
\* rb->size--: of ringBufferPop the emptiness test, *value = buffer[head]
\* and the new head.  (The buffer cannot be empty here: only this task
\* lowers size, and the stores of a push never write a 0.)
T_PopRead ==
    /\ tx_task.pc = "delay"
    /\ ~ringBufferIsEmpty(ring_buffer_TX)
    /\ \E p \in {ringBufferPop(ring_buffer_TX, tx.value_TX)} :
          /\ ring_buffer_TX' = [p.rb EXCEPT !.size = ring_buffer_TX.size]
          /\ tx' = [tx EXCEPT !.value_TX = p.value]
          /\ popped' = Append(popped, p.value)
    /\ tx_task' = [pc |-> "store", size |-> ring_buffer_TX.size]
    /\ UNCHANGED <<tx_race_rest, pushed, TX_encryption_vars, ring_buffer_RX,
                   rx, pin, n_cmds, console>>

\* The store of rb->size--, directWriteLow_single and gptimer_start.
T_PopStore ==
    /\ tx_task.pc = "store"
    /\ ring_buffer_TX' = [ring_buffer_TX EXCEPT !.size = tx_task.size - 1]
    /\ pin' = 0
    /\ tx' = [tx EXCEPT !.timer_TX = TRUE]
    /\ tx_task' = [pc |-> "loop", size |-> 0]
    /\ UNCHANGED <<tx_race_rest, pushed, popped, TX_encryption_vars, ring_buffer_RX,
                   rx, n_cmds, console>>

\* The alarms of the frame, down to the one that stops the TX timer.
T_Frame ==
    /\ tx.timer_TX
    /\ \E f \in {RunFrame(tx, rx, pin, ring_buffer_RX)} :
          /\ tx' = f.tx
          /\ rx' = f.rx
          /\ pin' = f.pin
          /\ ring_buffer_RX' = f.rb
    /\ UNCHANGED <<tx_race_rest, pushed, popped, TX_encryption_vars, ring_buffer_TX,
                   tx_task, n_cmds, console>>

T_Next ==
    \/ T_Transmit
    \/ T_PushWrite
    \/ T_PushStore
    \/ T_CheckTX
    \/ T_PopRead
    \/ T_PopStore
    \/ T_Frame

SpecTX == T_Init /\ [][T_Next]_vars

\* Neither task is between the load and the store of size.
TXBufferAtRest == console.pc # "store" /\ tx_task.pc # "store"

\* C34 (TX ring buffer under task interleaving): with the pushes of the
\* console task and the pops of the TX task interleaved at their loads and
\* stores, outside the calls (tail - head) mod N = size mod N holds for
\* ring_buffer_TX, and the values the TX task has popped are the values
\* pushed, in order: no pop yields a slot that no matching push wrote.
C34_TXBufferInvariant ==
    /\ TXBufferAtRest =>
           (ring_buffer_TX.tail - ring_buffer_TX.head) % BUFFER_MAX_SIZE
               = ring_buffer_TX.size % BUFFER_MAX_SIZE
    /\ Len(popped) <= Len(pushed)
    /\ popped = SubSeq(pushed, 1, Len(popped))

\* A pop has yielded a slot for which there was no push: more words popped
\* than pushed.
C34_PoppedUnwritten == Len(popped) > Len(pushed)

\* size has lost a pop: with both tasks outside the calls and the buffer
\* empty (head = tail, every pushed word popped) size is not 0.
C34_CountTooHigh ==
    /\ TXBufferAtRest
    /\ ring_buffer_TX.head = ring_buffer_TX.tail
    /\ Len(popped) = Len(pushed)
    /\ ring_buffer_TX.size = 1

(***************************************************************************)
(* A set_encryption command that fails (SpecCfg).                          *)
(***************************************************************************)
\* C35 (configuration failure is atomic): a cmd_set_encryption that returns
\* 1 leaves the context it selected, MSWS state included, as it was before
\* the command, and leaves both flags as they were: after a first command
\* that returned 1 neither flag is set and both contexts are as the program
\* started them.
C35_FailureAtomic ==
    /\ [][(console.pc = "setup" /\ console'.pc = "idle" /\ cfg_hist'.ret = 1) =>
            /\ TX_encryption_vars' = TX_encryption_vars
            /\ RX_encryption_vars' = RX_encryption_vars]_vars
    /\ []((n_cmds.set = 1 /\ console.pc = "idle" /\ cfg_hist.ret = 1) =>
            /\ ~tx_encryption_set /\ ~rx_encryption_set
            /\ TX_encryption_vars = NoEncryptionVars
            /\ RX_encryption_vars = NoEncryptionVars)

\* The first command, for TX, has returned 1 because malloc gave no memory:
\* tx_encryption_set is set, the seeds of the command are stored and the
\* MSWS pointer is NULL.
C35_HalfConfigured ==
    /\ n_cmds.set = 1 /\ console.pc = "idle"
    /\ cfg_hist.ret = 1 /\ cfg_hist.dir = "TX" /\ ~cfg_hist.called
    /\ tx_encryption_set
    /\ TX_encryption_vars.chaotic_map1.x = cfg_hist.a.x1
    /\ TX_encryption_vars # NoEncryptionVars
    /\ ~Ready(TX_encryption_vars)

\* A command refused by the range check has changed nothing.
C35_RefusedUnchanged ==
    /\ n_cmds.set = 1 /\ console.pc = "idle"
    /\ cfg_hist.ret = 1
    /\ ~check_double_range(cfg_hist.a.x1, cfg_hist.type)
    /\ ~tx_encryption_set /\ ~rx_encryption_set
    /\ TX_encryption_vars = NoEncryptionVars
    /\ RX_encryption_vars = NoEncryptionVars

(***************************************************************************)
(* The locals of a drain (Spec).  output_str has OutputSize bytes and      *)
(* hex_str BUFFER_MAX_SIZE * 9 + 1; process_buffer_recursive is handed     *)
(* max_length = sizeof(output_str) for both.                               *)
(***************************************************************************)
HexSize == BUFFER_MAX_SIZE * 9 + 1

\* C36 (drain stays in bounds): during a drain, whatever the number of
\* words popped, current_length is at most 4 * BUFFER_MAX_SIZE and
\* hex_length at most 9 * BUFFER_MAX_SIZE, so that both terminating NULs
\* land inside their arrays, and whenever a popped word is about to be
\* formatted the size max_length - hex_length handed to snprintf is not
\* below 0.
C36_DrainInBounds ==
    /\ Len(rx_task.d.output_str) <= OutputSize - 1
    /\ rx_task.d.hex_length <= HexSize - 1
    /\ rx_task.pc = "store" => rx_task.d.hex_length <= OutputSize

\* A word is about to be formatted with max_length - hex_length below 0,
\* in a drain that has popped no more words than the buffer holds.
C36_SizeUnderflow ==
    /\ rx_task.pc = "store"
    /\ rx_task.d.hex_length > OutputSize
    /\ Len(drain.popped) + 1 <= BUFFER_MAX_SIZE

\* The drain returns with hex_length past the last byte of hex_str.
C36_NulPastHexStr ==
    /\ rx_task.pc = "clear"
    /\ rx_task.d.hex_length > HexSize - 1

\* The drain returns with output_str filled to its last byte but one, a
\* further word having been dropped from it: current_length stays inside.
C36_OutputClamped ==
    /\ rx_task.pc = "clear"
    /\ Len(drain.popped) > BUFFER_MAX_SIZE
    /\ Len(rx_task.d.output_str) = OutputSize - 1

(***************************************************************************)
(* The padding of a short last group (SpecPack).                           *)
(***************************************************************************)
\* A string followed by the zero bytes that fill its last group of four.
Padded(m) == m \o [i \in 1..((4 - (Len(m) % 4)) % 4) |-> 0]

\* C37 (padding is delivered): while the two directions are in step, the
\* bytes the drains have put out are the leading bytes of the strings sent,
\* each followed by 4 - (n mod 4) zero bytes when its length n is not a
\* multiple of 4, and all of them once both ring buffers are empty again;
\* the drain that delivered the end of a string of such a length holds the
\* zero bytes and fails is_printable_string, so it is not logged as ASCII.
C37_PaddingDelivered ==
    in_step =>
        LET bytes == Flatten([i \in 1..Len(sent) |-> Padded(sent[i])]) IN
        /\ Len(rcvd) <= Len(bytes)
        /\ rcvd = SubSeq(bytes, 1, Len(rcvd))
        /\ (ringBufferIsEmpty(ring_buffer_TX) /\ ringBufferIsEmpty(ring_buffer_RX))
               => rcvd = bytes
        /\ (sent # <<>> /\ Len(sent[Len(sent)]) % 4 # 0 /\ rcvd = bytes) =>
               /\ rx_task.d.output_str # <<>>
               /\ rx_task.d.output_str[Len(rx_task.d.output_str)] = 0
               /\ ~is_printable_string(rx_task.d.output_str)

\* "Hi!" has gone over the link: the drain put out its three bytes and one
\* zero byte, and the text, printable as it was sent, is not printable as
\* received.
C37_Witness ==
    /\ in_step
    /\ sent = << <<72, 105, 33>> >>
    /\ is_printable_string(sent[1])
    /\ rcvd = <<72, 105, 33, 0>>
    /\ rx_task.d.output_str = rcvd
    /\ ~is_printable_string(rx_task.d.output_str)
    /\ ringBufferIsEmpty(ring_buffer_TX)
    /\ ringBufferIsEmpty(ring_buffer_RX)

(***************************************************************************)
(* SpecCmd: the transmit command from its argument vector on.  The REPL    *)
(* is configured with max_cmdline_length = MAX_CMDLINE_LENGTH, so a        *)
(* command line, the command name and the blanks before each argument      *)
(* included, has at most that many characters.  console.argv is the        *)
(* vector of the last command; last_add records the call of                *)
(* add_str_to_buffer it made.  TX_control_task sends the queued words, one *)
(* frame a step; RX_control_task has not yet seen its flag.                *)
(***************************************************************************)
MAX_CMDLINE_LENGTH == BUFFER_MAX_SIZE * 4

MAX_DATA_LENGTH == MAX_CMDLINE_LENGTH

MaxCmdAdds == 2

\* An argument of n letters.
Letters(n) == [i \in 1..n |-> 97]

RECURSIVE LineLength(_)
\* The characters of a command line with these words, one blank between
\* two of them.
LineLength(argv) ==
    IF argv = <<>> THEN 0
    ELSE Len(Head(argv)) + (IF Len(argv) > 1 THEN 1 ELSE 0) + LineLength(Tail(argv))

\* Argument vectors of the command "t" that a command line can hold: no
\* argument, one, or two.
Argvs ==
    { v \in { <<Letters(1)>> }
            \cup { <<Letters(1), Letters(a)>> : a \in 0..MAX_CMDLINE_LENGTH }
            \cup { <<Letters(1), Letters(a), Letters(b)>>
                   : a \in 0..MAX_CMDLINE_LENGTH, b \in 0..MAX_CMDLINE_LENGTH } :
        LineLength(v) <= MAX_CMDLINE_LENGTH }

RECURSIVE cmd_transmit_args(_, _, _)
\* The loop of cmd_transmit from argument i on (argv[i] of the source is
\* argv[i + 1] here), buffer being the text so far: an argument is copied
\* when buffer_index + len < MAX_DATA_LENGTH - 1, a blank follows it when it
\* is not the last and there is room, and the first argument that does not
\* fit ends the loop.
cmd_transmit_args(argv, i, buffer) ==
    IF ~(i < Len(argv)) THEN buffer
    ELSE IF Len(buffer) + Len(argv[i + 1]) < MAX_DATA_LENGTH - 1
    THEN Eval({ cmd_transmit_args(argv, i + 1,
                                  IF i < Len(argv) - 1 /\ Len(copied) < MAX_DATA_LENGTH - 1
                                  THEN Append(copied, 32) ELSE copied)
                : copied \in {buffer \o argv[i + 1]} })
    ELSE buffer

M_Init ==
    /\ \E c \in LinkConfigs :
          /\ TX_encryption_vars = cmd_set_encryption_store(NoEncryptionVars, c[1], c[2])
          /\ RX_encryption_vars = cmd_set_encryption_store(NoEncryptionVars, c[1], c[2])
          /\ cfg_set = [d \in Directions |-> Stored(c)]
    /\ tx_encryption_set = TRUE
    /\ rx_encryption_set = TRUE
    /\ tx = TXGlobals
    /\ rx = RXGlobals
    /\ pin = 1
    /\ tx_task = [pc |-> "loop"]
    /\ rx_task = [pc |-> "wait", d |-> NoDrain, value |-> ZERO32, size |-> 0]
    /\ \E g \in Garbage : ring_buffer_TX = createRingBuffer(g)
    /\ ring_buffer_RX = createRingBuffer([i \in Index |-> ZERO32])
    /\ ks_log = [d \in Directions |-> <<>>]
    /\ enc_log = <<>>
    /\ dec_log = <<>>
    /\ sent = <<>>
    /\ rcvd = <<>>
    /\ in_step = TRUE
    /\ last_add = NoAdd
    /\ n_cmds = [set |-> 2, add |-> 0]
    /\ frame = NoFrame
    /\ drain = NoDrainYet
    /\ console = [pc |-> "idle", argv |-> <<>>]
    /\ cfg_hist = NoCommand
    /\ msws_run = NoMswsRun
    /\ map_run = NoMapRun
    /\ rb = createRingBuffer([i \in Index |-> ZERO32])
    /\ out_value = ZERO32
    /\ rb_call = NoCall
    /\ pushed = <<>>
    /\ popped = <<>>

\* cmd_transmit: 1 without an argument or without both configurations,
\* else the arguments are joined and handed to add_str_to_buffer.
M_Transmit ==
    \E argv \in Argvs :
        /\ console.pc = "idle"
        /\ n_cmds.add < MaxCmdAdds
        /\ n_cmds' = [n_cmds EXCEPT !.add = @ + 1]
        /\ console' = [pc |-> "idle", argv |-> argv]
        /\ IF Len(argv) < 2 \/ ~check_encryption_settings_both
           THEN /\ last_add' = [NoAdd EXCEPT !.ret = 1]
                /\ UNCHANGED <<TX_encryption_vars, ring_buffer_TX>>
           ELSE \E buffer \in {cmd_transmit_args(argv, 1, <<>>)} :
                \E r \in {add_str_to_buffer(buffer, ring_buffer_TX, TX_encryption_vars)} :
                   /\ ring_buffer_TX' = r.rb
                   /\ TX_encryption_vars' = r.ev
                   /\ last_add' = [input |-> buffer, pre_rb |-> ring_buffer_TX,
                                   post_rb |-> r.rb,
                                   pre_ev |-> TX_encryption_vars, post_ev |-> r.ev,
                                   trace |-> r.trace, ret |-> 0, done |-> TRUE]
        /\ UNCHANGED <<rbvars, RX_encryption_vars, tx_encryption_set, rx_encryption_set,
                       ring_buffer_RX, linkvars, cfg_set, ks_log, enc_log, dec_log,
                       sent, rcvd, in_step, linkhist, cfg_hist, msws_run, map_run>>

\* A pass of the TX loop that finds a word, with its frame.
M_Link == console.pc = "idle" /\ P_Link

M_Next == M_Transmit \/ M_Link

SpecCmd == M_Init /\ [][M_Next]_vars

\* C38 (one message fits): a transmit command builds a message of at most
\* MAX_DATA_LENGTH - 2 bytes, no longer than its arguments with a blank
\* between two of them; add_str_to_buffer makes one push for every four
\* bytes or part of it, at most BUFFER_MAX_SIZE pushes; with ring_buffer_TX
\* empty at the call every push succeeds, so a push fails only when words
\* of an earlier message were still queued.
C38_OneMessageFits ==
    last_add.done =>
        /\ Len(last_add.input) <= MAX_DATA_LENGTH - 2
        /\ Len(last_add.input) + 2 = LineLength(console.argv)
        /\ Len(last_add.trace) = (Len(last_add.input) + 3) \div 4
        /\ Len(last_add.trace) <= BUFFER_MAX_SIZE
        /\ ringBufferIsEmpty(last_add.pre_rb) =>
               \A k \in 1..Len(last_add.trace) : last_add.trace[k].ret
        /\ (\E k \in 1..Len(last_add.trace) : ~last_add.trace[k].ret) =>
               /\ ~ringBufferIsEmpty(last_add.pre_rb)
               /\ last_add.pre_rb.size + Len(last_add.trace) > BUFFER_MAX_SIZE

\* A message of the greatest length, two arguments and the blank between
\* them, went into the empty buffer and filled it.
C38_Witness ==
    /\ last_add.done
    /\ Len(console.argv) = 3
    /\ Len(last_add.input) = MAX_DATA_LENGTH - 2
    /\ ringBufferIsEmpty(last_add.pre_rb)
    /\ Len(last_add.trace) = BUFFER_MAX_SIZE
    /\ \A k \in 1..Len(last_add.trace) : last_add.trace[k].ret
    /\ ringBufferIsFull(ring_buffer_TX)

\* A second message found a word of the first still queued and lost its
\* last word.
C38_DropBehindQueued ==
    /\ last_add.done
    /\ n_cmds.add = 2
    /\ last_add.pre_rb.size = 1
    /\ Len(last_add.trace) = BUFFER_MAX_SIZE
    /\ ~last_add.trace[BUFFER_MAX_SIZE].ret

\* C39 (bit counters stay bounded): in every reachable state bit_counter_TX
\* is in 0..33 and bit_counter_RX is in 0..32; an alarm of the TX timer that
\* puts a data bit on the line (value_TX >> bit_counter_TX) and an alarm of
\* the RX timer that takes a sample (sample << bit_counter_RX) find their
\* counter in 0..31.
C39_BitCountersBounded ==
    /\ [](tx.bit_counter_TX \in 0..33 /\ rx.bit_counter_RX \in 0..32)
    /\ [][(frame'.alarms.TX = frame.alarms.TX + 1 /\ tx.bit_counter_TX # 32 /\ tx'.timer_TX)
             => /\ tx.bit_counter_TX \in 0..31
                /\ pin' = Bit32(tx.value_TX, tx.bit_counter_TX)]_vars
    /\ [][(frame'.alarms.RX = frame.alarms.RX + 1 /\ frame'.samples # frame.samples)
             => /\ rx.bit_counter_RX \in 0..31
                /\ rx.bit_counter_RX = Len(frame.samples)]_vars

\* Both counters at their greatest value: the stop bit is on the line, the
\* 32 samples are taken, the shift by 31 among them with a sample of 1.
C39_Witness ==
    /\ tx.timer_TX /\ rx.timer_RX
    /\ tx.bit_counter_TX = 33
    /\ rx.bit_counter_RX = 32
    /\ Len(frame.samples) = 32
    /\ frame.samples[32] = 1
    /\ Bit32(rx.value_RX, 31) = 1
====
